---- MODULE Spec2Model ----
(***************************************************************************)
(* Cluster Simulation Engine of kafka-simulator (App component).           *)
(*                                                                         *)
(* The model follows the latest revision of the App component              *)
(* (src/unnamed/part_003, lines 436-1350); src/App.tsx is the preceding    *)
(* revision of the same component and shares its election effect, game     *)
(* loop, retry/reset and toggle handlers line for line.                    *)
(*                                                                         *)
(* The order of gameState.connections is never read by the engine (only    *)
(* some/filter by endpoints), so the array is kept as a bag: multiplicity  *)
(* is preserved, position is not.                                          *)
(*                                                                         *)
(* Numbers: the game loop multiplies rates by 0.5, so every lag is a       *)
(* multiple of one half.  Lags are stored in half-message units            *)
(* (currentLag = LagScale * lag); globalLag, a mean, is stored as a        *)
(* reduced fraction of half-message units.                                 *)
(***************************************************************************)
EXTENDS Integers, Sequences, FiniteSets, Bags, TLC

\* ------------------------------------------------------------------ bounds
MaxNodes == 4
MaxConnections == 3
MaxPartitions == 2
MaxProcessed == 50
MaxLog == 2
MaxTopics == 1
MaxLag == 4
MaxMeanTopics == 2
MaxCeilingNodes == 3

\* ------------------------------------------------------- program constants
BROKERS == <<101, 102, 103>>
BrokerSet == {BROKERS[i] : i \in 1..Len(BROKERS)}
Null == 0
LagScale == 2
LagCeiling == 100
ThroughputFactor == 10
ZkLogCap == 10
DefaultProductionRate == 8
DefaultProcessingRate == 5
InitialRF == 1
MaxRate == 50
NodeTypes == {"PRODUCER", "TOPIC", "CONSUMER"}
NodeIds == 1..MaxNodes

VARIABLES
    nodes,                  \* gameState.nodes: sequence of node records
    connections,            \* gameState.connections: bag of [sourceId, targetId]
    totalMessagesProcessed, \* gameState.totalMessagesProcessed
    globalLag,              \* gameState.globalLag as [num, den], half-message units
    isRunning,              \* gameState.isRunning
    gameStatus,             \* gameState.gameStatus
    clusterMode,            \* gameState.clusterMode
    isZookeeperOffline,     \* gameState.isZookeeperOffline
    activeControllerId,     \* gameState.activeControllerId (Null = null)
    zkLogs,                 \* gameState.zkLogs: sequence of actions, newest first
    raftLogs,               \* gameState.raftLogs: sequence of record types, oldest first
    brokerStates,           \* brokerStates: broker id -> online
    electionDue             \* the election effect's dependencies changed since it last ran

vars == <<nodes, connections, totalMessagesProcessed, globalLag, isRunning,
          gameStatus, clusterMode, isZookeeperOffline, activeControllerId,
          zkLogs, raftLogs, brokerStates, electionDue>>

gameVars == <<nodes, connections, totalMessagesProcessed, globalLag, isRunning,
              gameStatus, clusterMode, isZookeeperOffline, activeControllerId,
              zkLogs, raftLogs>>

\* ----------------------------------------------------------------- helpers
Range(s) == {s[i] : i \in 1..Len(s)}

Indices(s) == [i \in 1..Len(s) |-> i]

Min(a, b) == IF a <= b THEN a ELSE b

Max(a, b) == IF a >= b THEN a ELSE b

RECURSIVE GCD(_, _)
GCD(a, b) == IF b = 0 THEN a ELSE GCD(b, a % b)

\* reduce((a, b) => a + b, 0) over a sequence of numbers
SumSeq(s) ==
    LET sum[n \in 0..Len(s)] == IF n = 0 THEN 0 ELSE sum[n - 1] + s[n]
    IN sum[Len(s)]

\* mutant of Find: the last matching element instead of the first
RECURSIVE Find_Last(_, _)
Find_Last(s, live) ==
    IF s = <<>> THEN Null
    ELSE IF live[s[Len(s)]] THEN s[Len(s)] ELSE Find_Last(SubSeq(s, 1, Len(s) - 1), live)

\* Array.prototype.find on a sequence of broker ids; Null when nothing matches
RECURSIVE Find(_, _)
Find(s, live) ==
    IF s = <<>> THEN Null
    ELSE IF live[Head(s)] THEN Head(s) ELSE Find(Tail(s), live)

\* connections.some(c => c.sourceId === a && c.targetId === b)
Connected(conns, a, b) == BagIn([sourceId |-> a, targetId |-> b], conns)

NodeIndex(ns, id) ==
    IF \E i \in 1..Len(ns) : ns[i].id = id
    THEN CHOOSE i \in 1..Len(ns) : ns[i].id = id
    ELSE 0

\* generateId(): an opaque fresh identifier; the least unused one is taken
generateId(ns) == CHOOSE id \in NodeIds \ {ns[i].id : i \in 1..Len(ns)} :
                     \A o \in NodeIds \ {ns[i].id : i \in 1..Len(ns)} : id <= o

\* the NodeEntity literal built by addNode
NewNode(id, type, randomBrokerId) ==
    [ id                |-> id,
      type              |-> type,
      productionRate    |-> IF type = "PRODUCER" THEN DefaultProductionRate ELSE 0,
      processingRate    |-> IF type = "CONSUMER" THEN DefaultProcessingRate ELSE 0,
      currentLag        |-> 0,
      partitions        |-> IF type = "TOPIC" THEN 1 ELSE 0,
      replicationFactor |-> IF type = "TOPIC" THEN InitialRF ELSE 0,
      activeLeaderId    |-> IF type = "TOPIC" THEN randomBrokerId ELSE Null,
      replicas          |-> IF type = "TOPIC" THEN <<randomBrokerId>> ELSE <<>>,
      assignedPartitions|-> <<>>,
      isRebalancing     |-> FALSE,
      isIdle            |-> (type = "CONSUMER"),
      isOffline         |-> FALSE ]

\* ------------------------------------------------------ partition rebalancer
\* mutant of ResetConsumers: the flags are set, the old assignment is kept
ResetConsumers_KeepAssignment(ns) ==
    [i \in 1..Len(ns) |->
        IF ns[i].type = "CONSUMER"
        THEN [ns[i] EXCEPT !.isRebalancing = TRUE, !.isIdle = TRUE]
        ELSE ns[i]]

\* mutant of ResetConsumers: the assignment is emptied, the idle flag is kept
ResetConsumers_KeepIdle(ns) ==
    [i \in 1..Len(ns) |->
        IF ns[i].type = "CONSUMER"
        THEN [ns[i] EXCEPT !.assignedPartitions = <<>>, !.isRebalancing = TRUE]
        ELSE ns[i]]

\* step 1 of triggerRebalance: reset every consumer
ResetConsumers(ns) ==
    [i \in 1..Len(ns) |->
        IF ns[i].type = "CONSUMER"
        THEN [ns[i] EXCEPT !.assignedPartitions = <<>>,
                           !.isRebalancing = TRUE,
                           !.isIdle = TRUE]
        ELSE ns[i]]

\* indices (store order) of the consumers connected to topic tid
topicConsumersIndices(ns, conns, tid) ==
    SelectSeq(Indices(ns),
              LAMBDA i : ns[i].type = "CONSUMER" /\ Connected(conns, tid, ns[i].id))

\* mutant of Distribute: partition i goes to position (i + 1) % consumerCount
RECURSIVE Distribute_Shifted(_, _, _, _)
Distribute_Shifted(ns, idxs, i, partitionCount) ==
    IF i >= partitionCount THEN ns
    ELSE LET assignedConsumerIdx == (i + 1) % Len(idxs)
             globalIndex == idxs[assignedConsumerIdx + 1]
         IN Distribute_Shifted([ns EXCEPT ![globalIndex].assignedPartitions = Append(@, i),
                                          ![globalIndex].isIdle = FALSE],
                               idxs, i + 1, partitionCount)

\* the round-robin for loop: partitions i..partitionCount-1 of one topic
RECURSIVE Distribute(_, _, _, _)
Distribute(ns, idxs, i, partitionCount) ==
    IF i >= partitionCount THEN ns
    ELSE LET assignedConsumerIdx == i % Len(idxs)
             globalIndex == idxs[assignedConsumerIdx + 1]
         IN Distribute([ns EXCEPT ![globalIndex].assignedPartitions = Append(@, i),
                                  ![globalIndex].isIdle = FALSE],
                       idxs, i + 1, partitionCount)

\* topics.forEach(...) over the topics from position k on
RECURSIVE RebalanceTopics(_, _, _, _)
RebalanceTopics(ns, conns, topics, k) ==
    IF k > Len(topics) THEN ns
    ELSE LET topic == topics[k]
             idxs == topicConsumersIndices(ns, conns, topic.id)
             partitionCount == IF topic.partitions = 0 THEN 1 ELSE topic.partitions
             next == IF Len(idxs) > 0
                     THEN Distribute(ns, idxs, 0, partitionCount)
                     ELSE ns
         IN RebalanceTopics(next, conns, topics, k + 1)

triggerRebalance(ns, conns) ==
    LET newNodes == ResetConsumers(ns)
        topics == SelectSeq(newNodes, LAMBDA n : n.type = "TOPIC")
    IN RebalanceTopics(newNodes, conns, topics, 1)

\* --------------------------------------------------------------- initial state
Init ==
    /\ nodes = <<>>
    /\ connections = EmptyBag
    /\ totalMessagesProcessed = 0
    /\ globalLag = [num |-> 0, den |-> 1]
    /\ isRunning = FALSE
    /\ gameStatus = "IDLE"
    /\ clusterMode = "ZOOKEEPER"
    /\ isZookeeperOffline = FALSE
    /\ activeControllerId = Null
    /\ zkLogs = <<>>
    /\ raftLogs = <<>>
    /\ brokerStates = [b \in BrokerSet |-> TRUE]
    /\ electionDue = TRUE

\* --------------------------------------------------------------- log helpers
\* mutant of addZkLog: the entry is not stored
addZkLog_Dropped(logs, action) == logs

\* addZkLog: prepend and keep the 10 newest entries
addZkLog(logs, action) ==
    SubSeq(<<action>> \o logs, 1, Min(ZkLogCap, Len(logs) + 1))

\* appendMetadataRecord: append at the end
appendMetadataRecord(logs, type) == Append(logs, type)

\* ------------------------------------------------------ replica-set selection
Perms(S) == {p \in [1..Cardinality(S) -> S] : \A i, j \in 1..Cardinality(S) :
                                                  i # j => p[i] # p[j]}

\* mutant of pickBrokers: the pool is sliced to count, not count - 1, after
\* the preferred broker
pickBrokers_OffByOne(count, preferredFirst) ==
    IF preferredFirst # Null
    THEN {<<preferredFirst>> \o SubSeq(pool, 1, Min(Max(count, 0), Len(pool))) :
             pool \in Perms(BrokerSet \ {preferredFirst})}
    ELSE {SubSeq(pool, 1, Min(Max(count, 0), Len(pool))) : pool \in Perms(BrokerSet)}

\* mutant of pickBrokers: the preferred broker is put last, not first
pickBrokers_PreferredLast(count, preferredFirst) ==
    IF preferredFirst # Null
    THEN {SubSeq(pool, 1, Min(Max(count - 1, 0), Len(pool))) \o <<preferredFirst>> :
             pool \in Perms(BrokerSet \ {preferredFirst})}
    ELSE {SubSeq(pool, 1, Min(Max(count, 0), Len(pool))) : pool \in Perms(BrokerSet)}

\* pickBrokers: the set of lists the random shuffle can produce
pickBrokers(count, preferredFirst) ==
    IF preferredFirst # Null
    THEN {<<preferredFirst>> \o SubSeq(pool, 1, Min(Max(count - 1, 0), Len(pool))) :
             pool \in Perms(BrokerSet \ {preferredFirst})}
    ELSE {SubSeq(pool, 1, Min(Max(count, 0), Len(pool))) : pool \in Perms(BrokerSet)}

\* ------------------------------------------------- controller election effect
isControllerAlive(ctrl, live) == IF ctrl # Null THEN live[ctrl] ELSE FALSE

\* mutant of availableBrokers: the pool is not filtered by liveness
availableBrokers_Unfiltered(live) == BROKERS

\* mutant of availableBrokers: the live brokers in descending id order
availableBrokers_Descending(live) ==
    SelectSeq([k \in 1..Len(BROKERS) |-> BROKERS[Len(BROKERS) + 1 - k]], LAMBDA id : live[id])

availableBrokers(live) == SelectSeq(BROKERS, LAMBDA id : live[id])

\* mutant of ElectionEffect: the isZookeeperOffline early return dropped
ElectionEffect_IgnoresService ==
    /\ electionDue
    /\ UNCHANGED <<nodes, connections, totalMessagesProcessed, globalLag, isRunning,
                   gameStatus, clusterMode, isZookeeperOffline, brokerStates>>
    /\ IF isControllerAlive(activeControllerId, brokerStates)
       THEN UNCHANGED <<activeControllerId, zkLogs, raftLogs>>
       ELSE IF Len(availableBrokers(brokerStates)) > 0
       THEN /\ activeControllerId' = availableBrokers(brokerStates)[1]
            /\ IF clusterMode = "ZOOKEEPER"
               THEN /\ zkLogs' = addZkLog(zkLogs, "ELECT")
                    /\ UNCHANGED raftLogs
               ELSE /\ raftLogs' = appendMetadataRecord(raftLogs, "BROKER_CHANGE")
                    /\ UNCHANGED zkLogs
       ELSE /\ activeControllerId' = Null
            /\ UNCHANGED <<zkLogs, raftLogs>>
    /\ electionDue' = (activeControllerId' # activeControllerId)

\* mutant of ElectionEffect: every run installs the lowest-id live broker,
\* whether or not the current controller is live
ElectionEffect_AlwaysLowest ==
    /\ electionDue
    /\ UNCHANGED <<nodes, connections, totalMessagesProcessed, globalLag, isRunning,
                   gameStatus, clusterMode, isZookeeperOffline, brokerStates>>
    /\ IF clusterMode = "ZOOKEEPER" /\ isZookeeperOffline
       THEN /\ activeControllerId' = Null
            /\ UNCHANGED <<zkLogs, raftLogs>>
       ELSE IF Len(availableBrokers(brokerStates)) > 0
       THEN LET newController == availableBrokers(brokerStates)[1]
            IN IF newController # activeControllerId
               THEN /\ activeControllerId' = newController
                    /\ IF clusterMode = "ZOOKEEPER"
                       THEN /\ zkLogs' = addZkLog(zkLogs, "ELECT")
                            /\ UNCHANGED raftLogs
                       ELSE /\ raftLogs' = appendMetadataRecord(raftLogs, "BROKER_CHANGE")
                            /\ UNCHANGED zkLogs
               ELSE UNCHANGED <<activeControllerId, zkLogs, raftLogs>>
       ELSE /\ activeControllerId' = Null
            /\ UNCHANGED <<zkLogs, raftLogs>>
    /\ electionDue' = (activeControllerId' # activeControllerId)

ElectionEffect ==
    /\ electionDue
    /\ UNCHANGED <<nodes, connections, totalMessagesProcessed, globalLag, isRunning,
                   gameStatus, clusterMode, isZookeeperOffline, brokerStates>>
    /\ IF clusterMode = "ZOOKEEPER" /\ isZookeeperOffline
       THEN /\ activeControllerId' = Null
            /\ UNCHANGED <<zkLogs, raftLogs>>
       ELSE IF isControllerAlive(activeControllerId, brokerStates)
       THEN UNCHANGED <<activeControllerId, zkLogs, raftLogs>>
       ELSE IF Len(availableBrokers(brokerStates)) > 0
       THEN LET newController == availableBrokers(brokerStates)[1]
            IN IF newController # activeControllerId
               THEN /\ activeControllerId' = newController
                    /\ IF clusterMode = "ZOOKEEPER"
                       THEN /\ zkLogs' = addZkLog(zkLogs, "ELECT")
                            /\ UNCHANGED raftLogs
                       ELSE /\ raftLogs' = appendMetadataRecord(raftLogs, "BROKER_CHANGE")
                            /\ UNCHANGED zkLogs
               ELSE UNCHANGED <<activeControllerId, zkLogs, raftLogs>>
       ELSE /\ activeControllerId' = Null
            /\ UNCHANGED <<zkLogs, raftLogs>>
    \* the effect depends on activeControllerId: a change schedules one more run
    /\ electionDue' = (activeControllerId' # activeControllerId)

\* ------------------------------------------------------------------ game loop
isSystemRebalancing(ns) == \E i \in 1..Len(ns) : ns[i].isRebalancing

\* mutant of Failover: with a controller, the first live replica is made
\* leader even when the current leader is live
Failover_FailBack(node, ctrl, live) ==
    LET currentLeader == node.activeLeaderId
        isLeaderAlive == IF currentLeader # Null THEN live[currentLeader] ELSE FALSE
        newLeaderCandidate == Find(node.replicas, live)
    IN IF ctrl # Null /\ newLeaderCandidate # Null
       THEN [node EXCEPT !.activeLeaderId = newLeaderCandidate, !.isOffline = FALSE]
       ELSE [node EXCEPT !.isOffline = ~isLeaderAlive]

\* mutant of Failover: a topic already offline is not looked at again
Failover_NoRetry(node, ctrl, live) ==
    LET currentLeader == node.activeLeaderId
        isLeaderAlive == IF currentLeader # Null THEN live[currentLeader] ELSE FALSE
        newLeaderCandidate == Find(node.replicas, live)
    IN IF isLeaderAlive THEN [node EXCEPT !.isOffline = FALSE]
       ELSE IF node.isOffline \/ ctrl = Null \/ newLeaderCandidate = Null
       THEN [node EXCEPT !.isOffline = TRUE]
       ELSE [node EXCEPT !.activeLeaderId = newLeaderCandidate, !.isOffline = FALSE]

\* mutant of Failover: the controller is looked at before the leader, so a
\* topic with a live leader goes offline while no controller is elected
Failover_ControllerFirst(node, ctrl, live) ==
    LET currentLeader == node.activeLeaderId
        isLeaderAlive == IF currentLeader # Null THEN live[currentLeader] ELSE FALSE
        newLeaderCandidate == Find(node.replicas, live)
    IN IF ctrl = Null THEN [node EXCEPT !.isOffline = TRUE]
       ELSE IF isLeaderAlive THEN [node EXCEPT !.isOffline = FALSE]
       ELSE IF newLeaderCandidate # Null
            THEN [node EXCEPT !.activeLeaderId = newLeaderCandidate,
                              !.isOffline = FALSE]
            ELSE [node EXCEPT !.isOffline = TRUE]

\* replication & failover for one topic: the node after the failover block
Failover(node, ctrl, live) ==
    LET currentLeader == node.activeLeaderId
        isLeaderAlive == IF currentLeader # Null THEN live[currentLeader] ELSE FALSE
        controllerIsActive == ctrl # Null
        newLeaderCandidate == Find(node.replicas, live)
    IN IF isLeaderAlive THEN [node EXCEPT !.isOffline = FALSE]
       ELSE IF ~controllerIsActive THEN [node EXCEPT !.isOffline = TRUE]
       ELSE IF newLeaderCandidate # Null
            THEN [node EXCEPT !.activeLeaderId = newLeaderCandidate,
                              !.isOffline = FALSE]
            ELSE [node EXCEPT !.isOffline = TRUE]

\* sum of productionRate of the producers connected into topic tid
inflow(ns, conns, tid) ==
    SumSeq([i \in 1..Len(ns) |->
              IF ns[i].type = "PRODUCER" /\ Connected(conns, ns[i].id, tid)
              THEN ns[i].productionRate ELSE 0])

\* mutant of totalProcessingCapacity: the assignedPartitions.length > 0 test dropped
totalProcessingCapacity_AllConnected(ns, conns, tid) ==
    SumSeq([i \in 1..Len(ns) |->
              IF ns[i].type = "CONSUMER" /\ Connected(conns, tid, ns[i].id)
              THEN ns[i].processingRate ELSE 0])

\* sum of processingRate of the connected consumers holding a partition
totalProcessingCapacity(ns, conns, tid) ==
    SumSeq([i \in 1..Len(ns) |->
              IF /\ ns[i].type = "CONSUMER"
                 /\ Connected(conns, tid, ns[i].id)
                 /\ Len(ns[i].assignedPartitions) > 0
              THEN ns[i].processingRate ELSE 0])

\* lag after inflow, in half-message units (inflow * 0.5 messages)
LagAfterInflow(node, ns, conns) == node.currentLag + inflow(ns, conns, node.id)

\* Math.min(currentTopicLag, totalProcessingCapacity * 0.5), in half-message units
actualConsumed(node, ns, conns) ==
    Min(LagAfterInflow(node, ns, conns), totalProcessingCapacity(ns, conns, node.id))

\* mutant of UpdateLag: the whole capacity is subtracted, with no min and no clamp
UpdateLag_Unclamped(node, ns, conns) ==
    LagAfterInflow(node, ns, conns) - totalProcessingCapacity(ns, conns, node.id)

\* mutant of UpdateLag: the topic is drained before the inflow is added
UpdateLag_DrainFirst(node, ns, conns) ==
    Max(0, node.currentLag - Min(node.currentLag, totalProcessingCapacity(ns, conns, node.id)))
        + inflow(ns, conns, node.id)

\* the lag written back by the tick: Math.max(0, currentTopicLag - actualConsumed)
UpdateLag(node, ns, conns) ==
    Max(0, LagAfterInflow(node, ns, conns) - actualConsumed(node, ns, conns))

\* mutant of NodeUpdate: the early return for an offline topic dropped
NodeUpdate_NoOfflineSkip(node, ns, conns, ctrl, live) ==
    IF node.type # "TOPIC" THEN node
    ELSE [Failover(node, ctrl, live) EXCEPT !.currentLag = UpdateLag(node, ns, conns)]

\* one element of prev.nodes.map(...)
NodeUpdate(node, ns, conns, ctrl, live) ==
    IF node.type # "TOPIC" THEN node
    ELSE LET newNode == Failover(node, ctrl, live)
         IN IF newNode.isOffline THEN newNode
            ELSE [newNode EXCEPT !.currentLag = UpdateLag(node, ns, conns)]

\* Math.floor(actualConsumed * 10) of one node, in messages
processedBy(node, ns, conns, ctrl, live) ==
    IF node.type = "TOPIC" /\ ~Failover(node, ctrl, live).isOffline
    THEN (actualConsumed(node, ns, conns) * ThroughputFactor) \div LagScale
    ELSE 0

\* PARTITION_CHANGE records written by the failovers of one tick (KRAFT only)
PartitionChanges(ns, ctrl, live) ==
    SelectSeq([i \in 1..Len(ns) |->
                 IF /\ ns[i].type = "TOPIC"
                    /\ Failover(ns[i], ctrl, live).activeLeaderId # ns[i].activeLeaderId
                 THEN "PARTITION_CHANGE" ELSE "none"],
              LAMBDA r : r = "PARTITION_CHANGE")

\* mutant of avgLag: offline topics are not filtered out of the mean
avgLag_AllTopics(ns) ==
    LET topics == SelectSeq(ns, LAMBDA n : n.type = "TOPIC")
        sum == SumSeq([i \in 1..Len(topics) |-> topics[i].currentLag])
        g == GCD(sum, Len(topics))
    IN IF Len(topics) > 0
       THEN [num |-> sum \div g, den |-> Len(topics) \div g]
       ELSE [num |-> 0, den |-> 1]

\* mean lag of the online topics as a reduced fraction of half-message units
avgLag(ns) ==
    LET topics == SelectSeq(ns, LAMBDA n : n.type = "TOPIC" /\ ~n.isOffline)
        sum == SumSeq([i \in 1..Len(topics) |-> topics[i].currentLag])
        g == GCD(sum, Len(topics))
    IN IF Len(topics) > 0
       THEN [num |-> sum \div g, den |-> Len(topics) \div g]
       ELSE [num |-> 0, den |-> 1]

\* mutant of CeilingReached: the comparison is strict (avgLag > 100)
CeilingReached_Strict(avg) == avg.num > LagCeiling * LagScale * avg.den

\* avgLag >= 100
CeilingReached(avg) == avg.num >= LagCeiling * LagScale * avg.den

\* mutant of Tick: the stop-the-world early return dropped
Tick_NoStopTheWorld ==
    /\ ~electionDue
    /\ isRunning /\ gameStatus # "GAME_OVER"
    /\ LET nodeUpdates == [i \in 1..Len(nodes) |->
                              NodeUpdate(nodes[i], nodes, connections,
                                         activeControllerId, brokerStates)]
           processedTick == SumSeq([i \in 1..Len(nodes) |->
                              processedBy(nodes[i], nodes, connections,
                                          activeControllerId, brokerStates)])
           avg == avgLag(nodeUpdates)
           status == IF CeilingReached(avg) THEN "GAME_OVER" ELSE gameStatus
       IN /\ nodes' = nodeUpdates
          /\ globalLag' = avg
          /\ totalMessagesProcessed' = totalMessagesProcessed + processedTick
          /\ gameStatus' = status
          /\ isRunning' = (status = "PLAYING")
          /\ raftLogs' = IF clusterMode = "KRAFT"
                         THEN raftLogs \o PartitionChanges(nodes, activeControllerId,
                                                           brokerStates)
                         ELSE raftLogs
          /\ UNCHANGED <<connections, clusterMode, isZookeeperOffline,
                         activeControllerId, zkLogs, brokerStates, electionDue>>

Tick ==
    /\ ~electionDue
    /\ isRunning /\ gameStatus # "GAME_OVER"
    /\ IF isSystemRebalancing(nodes)
       THEN UNCHANGED vars
       ELSE LET nodeUpdates == [i \in 1..Len(nodes) |->
                                  NodeUpdate(nodes[i], nodes, connections,
                                             activeControllerId, brokerStates)]
                processedTick == SumSeq([i \in 1..Len(nodes) |->
                                  processedBy(nodes[i], nodes, connections,
                                              activeControllerId, brokerStates)])
                avg == avgLag(nodeUpdates)
                status == IF CeilingReached(avg) THEN "GAME_OVER" ELSE gameStatus
            IN /\ nodes' = nodeUpdates
               /\ globalLag' = avg
               /\ totalMessagesProcessed' = totalMessagesProcessed + processedTick
               /\ gameStatus' = status
               /\ isRunning' = (status = "PLAYING")
               /\ raftLogs' = IF clusterMode = "KRAFT"
                              THEN raftLogs \o PartitionChanges(nodes, activeControllerId,
                                                                brokerStates)
                              ELSE raftLogs
               /\ UNCHANGED <<connections, clusterMode, isZookeeperOffline,
                              activeControllerId, zkLogs, brokerStates, electionDue>>

\* mutant of SettleTimer: the timer is cancelled and never fires
SettleTimer_Cancelled ==
    /\ ~electionDue
    /\ isSystemRebalancing(nodes)
    /\ UNCHANGED vars

\* mutant of SettleTimer: the timer only runs while the session is running
SettleTimer_OnlyWhileRunning ==
    /\ ~electionDue
    /\ isRunning
    /\ isSystemRebalancing(nodes)
    /\ nodes' = [i \in 1..Len(nodes) |-> [nodes[i] EXCEPT !.isRebalancing = FALSE]]
    /\ UNCHANGED <<connections, totalMessagesProcessed, globalLag, isRunning,
                   gameStatus, clusterMode, isZookeeperOffline, activeControllerId,
                   zkLogs, raftLogs, brokerStates, electionDue>>

\* the rebalance settle timer
SettleTimer ==
    /\ ~electionDue
    /\ isSystemRebalancing(nodes)
    /\ nodes' = [i \in 1..Len(nodes) |-> [nodes[i] EXCEPT !.isRebalancing = FALSE]]
    /\ UNCHANGED <<connections, totalMessagesProcessed, globalLag, isRunning,
                   gameStatus, clusterMode, isZookeeperOffline, activeControllerId,
                   zkLogs, raftLogs, brokerStates, electionDue>>

\* -------------------------------------------------------------------- commands
\* the metadata layer is unavailable (addNode's isMetadataDown)
\* mutant of isMetadataDown: only the primary service is looked at
isMetadataDown_ServiceOnly == clusterMode = "ZOOKEEPER" /\ isZookeeperOffline

isMetadataDown ==
    IF clusterMode = "ZOOKEEPER" THEN isZookeeperOffline ELSE activeControllerId = Null

\* values the update command is issued with
RateValues == {1, MaxRate}

AddNode(type, randomBrokerId) ==
    /\ ~electionDue
    /\ gameStatus # "GAME_OVER"            \* the tool buttons are disabled
    /\ Len(nodes) < MaxNodes
    /\ IF type = "TOPIC" /\ isMetadataDown
       THEN UNCHANGED vars
       ELSE /\ nodes' = triggerRebalance(
                           Append(nodes, NewNode(generateId(nodes), type, randomBrokerId)),
                           connections)
            /\ UNCHANGED <<connections, totalMessagesProcessed, globalLag, isRunning,
                           gameStatus, clusterMode, isZookeeperOffline,
                           activeControllerId, zkLogs, raftLogs, brokerStates,
                           electionDue>>

\* mutant of DeleteNode: the connections of the deleted node are kept
DeleteNode_KeepConnections(id) ==
    /\ ~electionDue
    /\ NodeIndex(nodes, id) # 0
    /\ nodes' = triggerRebalance(SelectSeq(nodes, LAMBDA n : n.id # id), connections)
    /\ UNCHANGED <<connections, totalMessagesProcessed, globalLag, isRunning, gameStatus,
                   clusterMode, isZookeeperOffline, activeControllerId, zkLogs,
                   raftLogs, brokerStates, electionDue>>

DeleteNode(id) ==
    /\ ~electionDue
    /\ NodeIndex(nodes, id) # 0
    /\ LET remainingNodes == SelectSeq(nodes, LAMBDA n : n.id # id)
           remainingConnections ==
               [c \in {k \in BagToSet(connections) : k.sourceId # id /\ k.targetId # id}
                   |-> connections[c]]
       IN /\ nodes' = triggerRebalance(remainingNodes, remainingConnections)
          /\ connections' = remainingConnections
    /\ UNCHANGED <<totalMessagesProcessed, globalLag, isRunning, gameStatus,
                   clusterMode, isZookeeperOffline, activeControllerId, zkLogs,
                   raftLogs, brokerStates, electionDue>>

\* updateNode with updates = {partitions: count}
UpdatePartitions(id, count) ==
    /\ ~electionDue
    /\ NodeIndex(nodes, id) # 0
    /\ nodes[NodeIndex(nodes, id)].type = "TOPIC"
    /\ nodes' = triggerRebalance(
                   [nodes EXCEPT ![NodeIndex(nodes, id)].partitions = count],
                   connections)
    /\ UNCHANGED <<connections, totalMessagesProcessed, globalLag, isRunning,
                   gameStatus, clusterMode, isZookeeperOffline, activeControllerId,
                   zkLogs, raftLogs, brokerStates, electionDue>>

\* updateNode with updates = {productionRate: rate} or {processingRate: rate}
UpdateRate(id, rate) ==
    /\ ~electionDue
    /\ NodeIndex(nodes, id) # 0
    /\ nodes[NodeIndex(nodes, id)].type \in {"PRODUCER", "CONSUMER"}
    /\ nodes' = IF nodes[NodeIndex(nodes, id)].type = "PRODUCER"
                THEN [nodes EXCEPT ![NodeIndex(nodes, id)].productionRate = rate]
                ELSE [nodes EXCEPT ![NodeIndex(nodes, id)].processingRate = rate]
    /\ UNCHANGED <<connections, totalMessagesProcessed, globalLag, isRunning,
                   gameStatus, clusterMode, isZookeeperOffline, activeControllerId,
                   zkLogs, raftLogs, brokerStates, electionDue>>

\* mutant of NewReplicas: the current leader is not passed as preferredFirst
NewReplicas_NoPreferred(n, newRF) == pickBrokers(newRF, Null)

\* the replicas list an accepted replication-factor update may install
NewReplicas(n, newRF) ==
    pickBrokers(newRF, IF n.activeLeaderId # Null THEN n.activeLeaderId ELSE BROKERS[1])

\* mutant of UpdateReplicationFactor: the metadata checks dropped
UpdateReplicationFactor_Unchecked(id, newRF) ==
    /\ ~electionDue
    /\ NodeIndex(nodes, id) # 0
    /\ nodes[NodeIndex(nodes, id)].type = "TOPIC"
    /\ \E replicas \in NewReplicas(nodes[NodeIndex(nodes, id)], newRF) :
          nodes' = [nodes EXCEPT ![NodeIndex(nodes, id)].replicationFactor = newRF,
                                 ![NodeIndex(nodes, id)].replicas = replicas]
    /\ UNCHANGED <<connections, totalMessagesProcessed, globalLag, isRunning,
                   gameStatus, clusterMode, isZookeeperOffline, activeControllerId,
                   zkLogs, raftLogs, brokerStates, electionDue>>

\* updateNode with updates = {replicationFactor: newRF}
UpdateReplicationFactor(id, newRF) ==
    /\ ~electionDue
    /\ NodeIndex(nodes, id) # 0
    /\ nodes[NodeIndex(nodes, id)].type = "TOPIC"
    /\ LET k == NodeIndex(nodes, id)
           n == nodes[k]
       IN IF \/ clusterMode = "ZOOKEEPER" /\ isZookeeperOffline
             \/ clusterMode = "KRAFT" /\ activeControllerId = Null
          THEN nodes' = nodes
          ELSE \E replicas \in NewReplicas(n, newRF) :
                  nodes' = [nodes EXCEPT ![k].replicationFactor = newRF,
                                         ![k].replicas = replicas]
    /\ UNCHANGED <<connections, totalMessagesProcessed, globalLag, isRunning,
                   gameStatus, clusterMode, isZookeeperOffline, activeControllerId,
                   zkLogs, raftLogs, brokerStates, electionDue>>

\* mutant of checkValidTarget: the two valid-flow tests dropped
checkValidTarget_AnyTypes(sourceId, targetId, ns) ==
    /\ sourceId # Null
    /\ sourceId # targetId
    /\ NodeIndex(ns, sourceId) # 0
    /\ NodeIndex(ns, targetId) # 0

\* checkValidTarget(sourceId, targetId, nodes)
checkValidTarget(sourceId, targetId, ns) ==
    /\ sourceId # Null
    /\ sourceId # targetId
    /\ NodeIndex(ns, sourceId) # 0
    /\ NodeIndex(ns, targetId) # 0
    /\ LET source == ns[NodeIndex(ns, sourceId)]
           target == ns[NodeIndex(ns, targetId)]
       IN \/ source.type = "PRODUCER" /\ target.type = "TOPIC"
          \/ source.type = "TOPIC" /\ target.type = "CONSUMER"

\* handleCompleteLink with linkingSourceId = sourceId
HandleCompleteLink(sourceId, targetId) ==
    /\ ~electionDue
    /\ BagCardinality(connections) < MaxConnections
    /\ IF \/ ~checkValidTarget(sourceId, targetId, nodes)
          \/ Connected(connections, sourceId, targetId)
       THEN UNCHANGED vars
       ELSE LET newConnections ==
                    connections (+) SetToBag({[sourceId |-> sourceId, targetId |-> targetId]})
            IN /\ connections' = newConnections
               /\ nodes' = triggerRebalance(nodes, newConnections)
               /\ UNCHANGED <<totalMessagesProcessed, globalLag, isRunning, gameStatus,
                              clusterMode, isZookeeperOffline, activeControllerId,
                              zkLogs, raftLogs, brokerStates, electionDue>>

\* mutant of HandleReset: setBrokerStates is not called
HandleReset_KeepsBrokers ==
    /\ ~electionDue
    /\ nodes' = <<>>
    /\ connections' = EmptyBag
    /\ totalMessagesProcessed' = 0
    /\ globalLag' = [num |-> 0, den |-> 1]
    /\ isRunning' = FALSE
    /\ gameStatus' = "IDLE"
    /\ isZookeeperOffline' = FALSE
    /\ activeControllerId' = Null
    /\ zkLogs' = <<>>
    /\ raftLogs' = <<>>
    /\ electionDue' = TRUE
    /\ UNCHANGED <<clusterMode, brokerStates>>

HandleReset ==
    /\ ~electionDue
    /\ nodes' = <<>>
    /\ connections' = EmptyBag
    /\ totalMessagesProcessed' = 0
    /\ globalLag' = [num |-> 0, den |-> 1]
    /\ isRunning' = FALSE
    /\ gameStatus' = "IDLE"
    /\ isZookeeperOffline' = FALSE
    /\ activeControllerId' = Null
    /\ zkLogs' = <<>>
    /\ raftLogs' = <<>>
    /\ brokerStates' = [b \in BrokerSet |-> TRUE]
    /\ electionDue' = TRUE
    /\ UNCHANGED clusterMode

\* mutant of HandleRetry: isRunning is not written
HandleRetry_KeepsRunning ==
    /\ ~electionDue
    /\ globalLag' = [num |-> 0, den |-> 1]
    /\ totalMessagesProcessed' = 0
    /\ gameStatus' = "IDLE"
    /\ isZookeeperOffline' = FALSE
    /\ zkLogs' = <<>>
    /\ nodes' = [i \in 1..Len(nodes) |-> [nodes[i] EXCEPT !.currentLag = 0,
                                                          !.isOffline = FALSE,
                                                          !.isRebalancing = FALSE]]
    /\ brokerStates' = [b \in BrokerSet |-> TRUE]
    /\ electionDue' = TRUE
    /\ UNCHANGED <<connections, clusterMode, activeControllerId, raftLogs, isRunning>>

\* mutant of HandleRetry: the rebalancing flags are not cleared
HandleRetry_KeepsRebalancing ==
    /\ ~electionDue
    /\ globalLag' = [num |-> 0, den |-> 1]
    /\ totalMessagesProcessed' = 0
    /\ gameStatus' = "IDLE"
    /\ isRunning' = FALSE
    /\ isZookeeperOffline' = FALSE
    /\ zkLogs' = <<>>
    /\ nodes' = [i \in 1..Len(nodes) |-> [nodes[i] EXCEPT !.currentLag = 0,
                                                          !.isOffline = FALSE]]
    /\ brokerStates' = [b \in BrokerSet |-> TRUE]
    /\ electionDue' = TRUE
    /\ UNCHANGED <<connections, clusterMode, activeControllerId, raftLogs>>

HandleRetry ==
    /\ ~electionDue
    /\ globalLag' = [num |-> 0, den |-> 1]
    /\ totalMessagesProcessed' = 0
    /\ gameStatus' = "IDLE"
    /\ isRunning' = FALSE
    /\ isZookeeperOffline' = FALSE
    /\ zkLogs' = <<>>
    /\ nodes' = [i \in 1..Len(nodes) |-> [nodes[i] EXCEPT !.currentLag = 0,
                                                          !.isOffline = FALSE,
                                                          !.isRebalancing = FALSE]]
    /\ brokerStates' = [b \in BrokerSet |-> TRUE]
    /\ electionDue' = TRUE
    /\ UNCHANGED <<connections, clusterMode, activeControllerId, raftLogs>>

\* mutant of TogglePause: the GAME_OVER early return dropped
TogglePause_Unchecked ==
    /\ ~electionDue
    /\ isRunning' = ~isRunning
    /\ gameStatus' = IF ~isRunning THEN "PLAYING" ELSE "IDLE"
    /\ UNCHANGED <<nodes, connections, totalMessagesProcessed, globalLag, clusterMode,
                   isZookeeperOffline, activeControllerId, zkLogs, raftLogs,
                   brokerStates, electionDue>>

TogglePause ==
    /\ ~electionDue
    /\ IF gameStatus = "GAME_OVER"
       THEN UNCHANGED <<isRunning, gameStatus>>
       ELSE /\ isRunning' = ~isRunning
            /\ gameStatus' = IF ~isRunning THEN "PLAYING" ELSE "IDLE"
    /\ UNCHANGED <<nodes, connections, totalMessagesProcessed, globalLag, clusterMode,
                   isZookeeperOffline, activeControllerId, zkLogs, raftLogs,
                   brokerStates, electionDue>>

\* mutant of ToggleClusterMode: the controller is carried over to the new mode
ToggleClusterMode_KeepsController ==
    /\ ~electionDue
    /\ clusterMode' = IF clusterMode = "ZOOKEEPER" THEN "KRAFT" ELSE "ZOOKEEPER"
    /\ isZookeeperOffline' = FALSE
    /\ zkLogs' = <<>>
    /\ raftLogs' = <<>>
    /\ electionDue' = TRUE
    /\ UNCHANGED <<nodes, connections, totalMessagesProcessed, globalLag, isRunning,
                   gameStatus, brokerStates, activeControllerId>>

ToggleClusterMode ==
    /\ ~electionDue
    /\ clusterMode' = IF clusterMode = "ZOOKEEPER" THEN "KRAFT" ELSE "ZOOKEEPER"
    /\ isZookeeperOffline' = FALSE
    /\ zkLogs' = <<>>
    /\ raftLogs' = <<>>
    /\ activeControllerId' = Null
    /\ electionDue' = TRUE
    /\ UNCHANGED <<nodes, connections, totalMessagesProcessed, globalLag, isRunning,
                   gameStatus, brokerStates>>

\* mutant of ToggleBroker: every broker's flag is flipped
ToggleBroker_All(id) ==
    /\ ~electionDue
    /\ brokerStates' = [b \in BrokerSet |-> ~brokerStates[b]]
    /\ electionDue' = TRUE
    /\ UNCHANGED gameVars

ToggleBroker(id) ==
    /\ ~electionDue
    /\ brokerStates' = [brokerStates EXCEPT ![id] = ~@]
    /\ electionDue' = TRUE
    /\ UNCHANGED gameVars

\* mutant of ToggleZookeeper: the KRAFT early return dropped
ToggleZookeeper_AnyMode ==
    /\ ~electionDue
    /\ isZookeeperOffline' = ~isZookeeperOffline
    /\ electionDue' = TRUE
    /\ UNCHANGED <<nodes, connections, totalMessagesProcessed, globalLag, isRunning,
                   gameStatus, clusterMode, activeControllerId, zkLogs, raftLogs,
                   brokerStates>>

ToggleZookeeper ==
    /\ ~electionDue
    /\ IF clusterMode = "KRAFT"
       THEN UNCHANGED <<isZookeeperOffline, electionDue>>
       ELSE /\ isZookeeperOffline' = ~isZookeeperOffline
            /\ electionDue' = TRUE
    /\ UNCHANGED <<nodes, connections, totalMessagesProcessed, globalLag, isRunning,
                   gameStatus, clusterMode, activeControllerId, zkLogs, raftLogs,
                   brokerStates>>

\* --------------------------------------------------------------- specification
\* bounds on the counters that grow without limit
LogRoom == Len(zkLogs) < MaxLog /\ Len(raftLogs) < MaxLog

TickRoom == totalMessagesProcessed < MaxProcessed /\ Len(raftLogs) < MaxLog

Next ==
    \/ ElectionEffect
    \/ TickRoom /\ Tick
    \/ SettleTimer
    \/ \E type \in NodeTypes, b \in BrokerSet : AddNode(type, b)
    \/ \E id \in NodeIds : DeleteNode(id)
    \/ \E id \in NodeIds, count \in 1..MaxPartitions : UpdatePartitions(id, count)
    \/ \E id \in NodeIds, rate \in RateValues : UpdateRate(id, rate)
    \/ \E id \in NodeIds, newRF \in 1..Len(BROKERS) : UpdateReplicationFactor(id, newRF)
    \/ \E s \in NodeIds, t \in NodeIds : HandleCompleteLink(s, t)
    \/ HandleReset
    \/ HandleRetry
    \/ TogglePause
    \/ ToggleClusterMode
    \/ LogRoom /\ \E id \in BrokerSet : ToggleBroker(id)
    \/ LogRoom /\ ToggleZookeeper

Spec == Init /\ [][Next]_vars

\* ---------------------------------------------------------------------------
\* Topology: topics and consumers are added and linked, partition counts are
\* changed and the settle timer fires, with the cluster left as elected at
\* start-up (topics are created on broker 101).  Every one of these commands
\* ends in triggerRebalance.
NextTopology ==
    \/ ElectionEffect
    \/ SettleTimer
    \/ \E type \in {"TOPIC", "CONSUMER"} : AddNode(type, BROKERS[1])
    \/ \E id \in NodeIds, count \in 1..MaxPartitions : UpdatePartitions(id, count)
    \/ \E s \in NodeIds, t \in NodeIds : HandleCompleteLink(s, t)

SpecTopology == Init /\ [][NextTopology]_vars

\* ------------------------------------------------------- partition assignment
TopicIdx == {i \in 1..Len(nodes) : nodes[i].type = "TOPIC"}

ConsumerIdx == {i \in 1..Len(nodes) : nodes[i].type = "CONSUMER"}

\* the consumers connected to the topic at position t
ConsumersOf(t) == {c \in ConsumerIdx : Connected(connections, nodes[t].id, nodes[c].id)}

\* the topics the consumer at position c is connected to
TopicsOf(c) == {t \in TopicIdx : Connected(connections, nodes[t].id, nodes[c].id)}

\* number of occurrences of x in the sequence s
Occurrences(s, x) == Cardinality({k \in 1..Len(s) : s[k] = x})

RECURSIVE SumOver(_, _)
SumOver(S, f) ==
    IF S = {} THEN 0
    ELSE LET x == CHOOSE y \in S : TRUE IN f[x] + SumOver(S \ {x}, f)

\* how many times partition index i is held among the consumers of topic t
Holders(t, i) ==
    SumOver(ConsumersOf(t),
            [c \in ConsumersOf(t) |-> Occurrences(nodes[c].assignedPartitions, i)])

\* C4: for every topic with p partitions and at least one connected consumer,
\* each partition index 0..p-1 is held exactly once among those consumers, and
\* those consumers hold no index outside 0..p-1 (also for a consumer connected
\* to several topics).
C4_PartitionCompleteness ==
    \A t \in TopicIdx :
        ConsumersOf(t) # {} =>
            /\ \A i \in 0..(nodes[t].partitions - 1) : Holders(t, i) = 1
            /\ \A c \in ConsumersOf(t) :
                  Range(nodes[c].assignedPartitions) \subseteq 0..(nodes[t].partitions - 1)

\* C5: every partition index a consumer holds is below the partition count of
\* every topic the consumer is connected to.
C5_AssignedBelowPartitionCount ==
    \A c \in ConsumerIdx : \A t \in TopicsOf(c) :
        \A k \in 1..Len(nodes[c].assignedPartitions) :
            nodes[c].assignedPartitions[k] < nodes[t].partitions

\* C6: for a topic with p partitions and c > p connected consumers, exactly
\* c - p of those consumers have an empty assignment.
C6_IdleCount ==
    \A t \in TopicIdx :
        Cardinality(ConsumersOf(t)) > nodes[t].partitions =>
            Cardinality({c \in ConsumersOf(t) : nodes[c].assignedPartitions = <<>>})
                = Cardinality(ConsumersOf(t)) - nodes[t].partitions

\* C7: rebalancing the result of a rebalance again, over the same connections,
\* gives every consumer the same assignedPartitions and the same idle flag.
C7_RebalanceIdempotent ==
    LET once == triggerRebalance(nodes, connections)
        twice == triggerRebalance(once, connections)
    IN /\ Len(twice) = Len(once)
       /\ \A i \in 1..Len(once) :
             /\ twice[i].assignedPartitions = once[i].assignedPartitions
             /\ twice[i].isIdle = once[i].isIdle

\* a rebalance over a consumer of two topics and a topic shared by two
\* consumers, with more than one partition somewhere
C7_Witness ==
    /\ \E c \in ConsumerIdx : Len(nodes[c].assignedPartitions) >= 2
    /\ \E t \in TopicIdx : Cardinality(ConsumersOf(t)) >= 2
    /\ nodes = triggerRebalance(nodes, connections)

\* ---------------------------------------------------------------------------
\* Cluster: brokers, the primary service and the mode are toggled, retry and
\* reset are issued and the election effect runs, on an empty board.
NextCluster ==
    \/ ElectionEffect
    \/ LogRoom /\ \E id \in BrokerSet : ToggleBroker(id)
    \/ LogRoom /\ ToggleZookeeper
    \/ ToggleClusterMode
    \/ HandleRetry
    \/ HandleReset

SpecCluster == Init /\ [][NextCluster]_vars

\* C2: once the election effect has run after the latest change of its
\* dependencies (so in every state a tick or a command observes), the
\* controller is null or a broker whose liveness flag is true.
C2_ControllerLive ==
    ~electionDue => (activeControllerId = Null \/ brokerStates[activeControllerId])

\* the election has re-run after broker 101 went down and installed 102
C2_Witness ==
    /\ ~electionDue
    /\ ~brokerStates[101]
    /\ activeControllerId = 102

\* C13: in ZOOKEEPER mode with the primary service unavailable, once the
\* election effect has re-run the controller is null whatever the broker
\* liveness map is, and no election result is installed while the service
\* stays unavailable.
C13_NoControllerWithoutService ==
    (clusterMode = "ZOOKEEPER" /\ isZookeeperOffline /\ ~electionDue)
        => activeControllerId = Null

\* the service went down after broker 101 had been elected: the effect has
\* re-run, live brokers exist and the controller is null
C13_Witness ==
    /\ clusterMode = "ZOOKEEPER" /\ isZookeeperOffline /\ ~electionDue
    /\ activeControllerId = Null
    /\ brokerStates[101] /\ ~brokerStates[102]
    /\ zkLogs = <<"ELECT">>

\* C14: when the election is evaluated in ZOOKEEPER mode with the service
\* available, or in KRAFT mode, and the current controller is null or not
\* live, the new controller is the live broker with the lowest id, or null
\* if no broker is live.
C14_LowestLiveBrokerElected ==
    [][(/\ ElectionEffect
        /\ ~(clusterMode = "ZOOKEEPER" /\ isZookeeperOffline)
        /\ ~(activeControllerId # Null /\ brokerStates[activeControllerId])) =>
        IF \E b \in BrokerSet : brokerStates[b]
        THEN /\ activeControllerId' \in BrokerSet
             /\ brokerStates[activeControllerId']
             /\ \A b \in BrokerSet : brokerStates[b] => activeControllerId' <= b
        ELSE activeControllerId' = Null]_vars

\* KRAFT mode: 101 was elected, 102 and then 101 went down, and the re-run
\* election installed 103, the only (hence lowest) live broker
C14_Witness ==
    /\ clusterMode = "KRAFT" /\ ~electionDue
    /\ ~brokerStates[101] /\ ~brokerStates[102] /\ brokerStates[103]
    /\ activeControllerId = 103
    /\ Len(raftLogs) = 2

\* the log of the given mode gained exactly the one entry of that mode's kind
OneEntryAppended(mode) ==
    IF mode = "ZOOKEEPER"
    THEN /\ zkLogs' = SubSeq(<<"ELECT">> \o zkLogs, 1, Min(10, Len(zkLogs) + 1))
         /\ raftLogs' = raftLogs
    ELSE /\ raftLogs' = raftLogs \o <<"BROKER_CHANGE">>
         /\ zkLogs' = zkLogs

\* C15: every change of the controller id (election of a broker, loss of the
\* controller to null, forced null on service outage or mode switch) appends
\* exactly one entry to the metadata-operation log, ELECT in ZOOKEEPER mode
\* and BROKER_CHANGE in KRAFT mode.
C15_EveryControllerChangeLogged ==
    [][(activeControllerId' # activeControllerId /\ ~HandleReset) =>
        OneEntryAppended(clusterMode')]_vars

\* C15 as amended: every election of a broker as controller appends exactly
\* one entry, ELECT in ZOOKEEPER mode and BROKER_CHANGE in KRAFT mode; a
\* change of the controller to null appends no entry (the logs are left as
\* they are, or cleared by the mode switch or the reset).
C15_ElectionLogged ==
    [][activeControllerId' # activeControllerId =>
        IF activeControllerId' # Null
        THEN clusterMode' = clusterMode /\ OneEntryAppended(clusterMode)
        ELSE /\ zkLogs' \in {zkLogs, <<>>}
             /\ raftLogs' \in {raftLogs, <<>>}]_vars

\* ZOOKEEPER mode: 101 was elected, went down, and 102 was elected; each
\* election left one ELECT entry
C15_Witness ==
    /\ clusterMode = "ZOOKEEPER" /\ ~electionDue
    /\ ~brokerStates[101]
    /\ activeControllerId = 102
    /\ zkLogs = <<"ELECT", "ELECT">>

\* ---------------------------------------------------------------------------
\* Logs: brokers and the primary service are toggled and the mode is switched
\* for as long as the KRAFT log is within the window of the ZOOKEEPER log.
NextLogs ==
    \/ ElectionEffect
    \/ Len(raftLogs) <= ZkLogCap /\ \E id \in BrokerSet : ToggleBroker(id)
    \/ ToggleZookeeper
    \/ ToggleClusterMode

SpecLogs == Init /\ [][NextLogs]_vars

\* C16: the metadata-operation log is bounded in both modes: the length of
\* zkLogs and of raftLogs never exceeds the recent-window cap of 10 entries.
C16_LogsBounded ==
    /\ Len(zkLogs) <= 10
    /\ Len(raftLogs) <= 10

\* ---------------------------------------------------------------------------
\* Replication: topics are created on any broker and re-replicated, brokers
\* and the primary service are toggled, the election effect and the game loop
\* run, in the start-up (ZOOKEEPER) mode.  Without producers every lag stays 0.
NextReplication ==
    \/ ElectionEffect
    \/ TickRoom /\ Tick
    \/ Len(nodes) < MaxTopics /\ \E b \in BrokerSet : AddNode("TOPIC", b)
    \/ \E id \in NodeIds, newRF \in 1..Len(BROKERS) : UpdateReplicationFactor(id, newRF)
    \/ TogglePause
    \/ LogRoom /\ \E id \in BrokerSet : ToggleBroker(id)
    \/ LogRoom /\ ToggleZookeeper

SpecReplication == Init /\ [][NextReplication]_vars

\* C1: a topic's activeLeaderId, when set, is an element of its replicas.
C1_LeaderInReplicas ==
    \A i \in TopicIdx :
        nodes[i].activeLeaderId # Null => nodes[i].activeLeaderId \in Range(nodes[i].replicas)

\* a topic re-replicated to three brokers whose leader then failed over
C1_Witness ==
    \E i \in TopicIdx :
        /\ Len(nodes[i].replicas) = 3
        /\ nodes[i].activeLeaderId # Null
        /\ nodes[i].activeLeaderId # nodes[i].replicas[1]
        /\ ~nodes[i].isOffline

\* the leader of topic i is down while a controller is elected
LeaderDownWithController(i) ==
    /\ nodes[i].type = "TOPIC"
    /\ ~(nodes[i].activeLeaderId # Null /\ brokerStates[nodes[i].activeLeaderId])
    /\ activeControllerId # Null

\* C8: in a tick that is not skipped, a topic whose leader is down while a
\* controller is elected gets as leader the first replica, in stored order,
\* that is live, and is online; with no live replica it is marked offline.
C8_FailoverFirstLiveReplica ==
    [][(Tick /\ ~isSystemRebalancing(nodes)) =>
        \A i \in 1..Len(nodes) :
            LeaderDownWithController(i) =>
                IF \E k \in 1..Len(nodes[i].replicas) : brokerStates[nodes[i].replicas[k]]
                THEN /\ \E k \in 1..Len(nodes[i].replicas) :
                           /\ brokerStates[nodes[i].replicas[k]]
                           /\ \A j \in 1..(k - 1) : ~brokerStates[nodes[i].replicas[j]]
                           /\ nodes'[i].activeLeaderId = nodes[i].replicas[k]
                     /\ ~nodes'[i].isOffline
                ELSE nodes'[i].isOffline]_vars

\* replicas [101,102,103] with 101 and 102 down: the tick has moved the
\* leader from 101 to 103 and the topic is online
C8_Witness ==
    /\ ~brokerStates[101] /\ ~brokerStates[102] /\ brokerStates[103]
    /\ activeControllerId # Null
    /\ \E i \in TopicIdx :
          /\ nodes[i].replicas = <<101, 102, 103>>
          /\ nodes[i].activeLeaderId = 103
          /\ ~nodes[i].isOffline

\* ---------------------------------------------------------------------------
\* Message flow: a board is laid out while the session is untouched (topics
\* first, then producers, then consumers, all on the first broker), then it is
\* started, rates are lowered, the first broker and the primary service are
\* toggled while it runs, and the game loop runs while every lag is below
\* MaxLag.
Pristine ==
    /\ ~isRunning /\ totalMessagesProcessed = 0
    /\ ~isZookeeperOffline
    /\ \A b \in BrokerSet : brokerStates[b]
    /\ \A i \in 1..Len(nodes) :
          /\ nodes[i].currentLag = 0
          /\ nodes[i].type = "PRODUCER" => nodes[i].productionRate = DefaultProductionRate
          /\ nodes[i].type = "CONSUMER" => nodes[i].processingRate = DefaultProcessingRate

LayoutOrder(type) ==
    /\ type = "TOPIC" => /\ \A i \in 1..Len(nodes) : nodes[i].type = "TOPIC"
                         /\ Len(nodes) < MaxTopics
    /\ type = "PRODUCER" => \A i \in 1..Len(nodes) : nodes[i].type # "CONSUMER"

LagRoom == \A i \in 1..Len(nodes) : nodes[i].currentLag < MaxLag

NextFlow ==
    \/ ElectionEffect
    \/ TickRoom /\ LagRoom /\ Tick
    \/ SettleTimer
    \/ Pristine /\ \E type \in NodeTypes : LayoutOrder(type) /\ AddNode(type, BROKERS[1])
    \/ Pristine /\ \E s \in NodeIds, t \in NodeIds : HandleCompleteLink(s, t)
    \/ \E id \in NodeIds : UpdateRate(id, 1)
    \/ ~isRunning /\ TogglePause
    \/ isRunning /\ LogRoom /\ ToggleBroker(BROKERS[1])
    \/ isRunning /\ LogRoom /\ ToggleZookeeper

SpecFlow == Init /\ [][NextFlow]_vars

\* C3: every topic's lag (currentLag) is >= 0 after any sequence of commands
\* and ticks.
C3_LagNonNegative ==
    \A i \in TopicIdx : nodes[i].currentLag >= 0

\* a topic fed by a producer of rate 1 whose consumer drained it back to 0
C3_Witness ==
    /\ totalMessagesProcessed > 0
    /\ \E i \in TopicIdx :
          /\ nodes[i].currentLag = 0
          /\ ~nodes[i].isOffline
          /\ \E j \in 1..Len(nodes) :
                /\ nodes[j].type = "PRODUCER"
                /\ nodes[j].productionRate = 1
                /\ Connected(connections, nodes[j].id, nodes[i].id)

\* the producers linked into the topic at position i
ProducersInto(i) ==
    {j \in 1..Len(nodes) : /\ nodes[j].type = "PRODUCER"
                           /\ Connected(connections, nodes[j].id, nodes[i].id)}

\* inflow and capacity of topic i as the specification words them
InflowOf(i) == SumOver(ProducersInto(i), [j \in ProducersInto(i) |-> nodes[j].productionRate])

CapacityOf(i) ==
    SumOver({j \in ConsumersOf(i) : nodes[j].assignedPartitions # <<>>},
            [j \in ConsumersOf(i) |-> nodes[j].processingRate])

\* what topic i drains in one online tick, in half-message units
DrainOf(i) == Min(nodes[i].currentLag + InflowOf(i), CapacityOf(i))

\* the leader of topic i is not live and no failover is possible
NoFailoverPossible(i) ==
    /\ nodes[i].type = "TOPIC"
    /\ ~(nodes[i].activeLeaderId # Null /\ brokerStates[nodes[i].activeLeaderId])
    /\ \/ activeControllerId = Null
       \/ \A k \in 1..Len(nodes[i].replicas) : ~brokerStates[nodes[i].replicas[k]]

\* C9: in a tick that is not skipped, a topic whose leader is not live and
\* that cannot fail over (no controller, or all replicas down) is offline with
\* activeLeaderId and lag unchanged, and the processed counter grows only by
\* what the other topics drained; so on every tick it stays offline.
C9_OfflineTopicFrozen ==
    [][(Tick /\ ~isSystemRebalancing(nodes)) =>
        /\ \A i \in 1..Len(nodes) :
              NoFailoverPossible(i) =>
                  /\ nodes'[i].isOffline
                  /\ nodes'[i].activeLeaderId = nodes[i].activeLeaderId
                  /\ nodes'[i].currentLag = nodes[i].currentLag
        /\ totalMessagesProcessed' - totalMessagesProcessed =
              SumOver({i \in TopicIdx : ~NoFailoverPossible(i)},
                      [i \in TopicIdx |-> (DrainOf(i) * ThroughputFactor) \div LagScale])]_vars

\* a running board whose topic went offline with no controller elected, its
\* stale leader 101 and a backlog kept, while its producer and a consumer
\* holding a partition stay linked
C9_Witness ==
    /\ isRunning /\ ~isSystemRebalancing(nodes) /\ ~electionDue
    /\ activeControllerId = Null
    /\ \E i \in TopicIdx :
          /\ nodes[i].isOffline
          /\ nodes[i].activeLeaderId = 101
          /\ nodes[i].currentLag > 0
          /\ InflowOf(i) > 0
          /\ CapacityOf(i) > 0

\* C10: in a tick that is not skipped, each online topic's lag becomes
\* max(0, lag + k*inflow - min(lag + k*inflow, k*capacity)) with k = 0.5,
\* inflow the summed productionRate of the producers linked into it and
\* capacity the summed processingRate of the linked consumers that hold at
\* least one assigned partition (lag counted in half-message units).
C10_LagUpdate ==
    [][(Tick /\ ~isSystemRebalancing(nodes)) =>
        \A i \in 1..Len(nodes) :
            (nodes[i].type = "TOPIC" /\ ~nodes'[i].isOffline) =>
                nodes'[i].currentLag =
                    Max(0, nodes[i].currentLag + InflowOf(i)
                           - Min(nodes[i].currentLag + InflowOf(i), CapacityOf(i)))]_vars

\* producer rate 8, consumer rate 5 assigned [0], a second linked consumer
\* left without a partition: one tick from lag 0 gives lag 1.5
C10_Witness ==
    /\ totalMessagesProcessed = (DefaultProcessingRate * ThroughputFactor) \div LagScale
    /\ \E i \in TopicIdx :
          /\ ~nodes[i].isOffline
          /\ nodes[i].currentLag = 3
          /\ InflowOf(i) = 8
          /\ \E j \in ConsumersOf(i) : /\ nodes[j].processingRate = 5
                                         /\ nodes[j].assignedPartitions = <<0>>
          /\ \E j \in ConsumersOf(i) : /\ nodes[j].processingRate = 5
                                         /\ nodes[j].assignedPartitions = <<>>

\* ---------------------------------------------------------------------------
\* Session: a board of topics and producers is laid out and producers are
\* turned up to the highest rate while the session is untouched; the session
\* is started, paused, retried and reset, and the game loop runs up to the
\* lag ceiling.  Without consumers no node is ever rebalancing.
NextSession ==
    \/ ElectionEffect
    \/ Tick
    \/ Pristine /\ \E type \in {"TOPIC", "PRODUCER"} :
          LayoutOrder(type) /\ AddNode(type, BROKERS[1])
    \/ Pristine /\ \E s \in NodeIds, t \in NodeIds : HandleCompleteLink(s, t)
    \/ Pristine /\ \E id \in NodeIds : UpdateRate(id, MaxRate)
    \/ TogglePause
    \/ HandleRetry
    \/ HandleReset

SpecSession == Init /\ [][NextSession]_vars

\* C11: a tick that computes a global lag >= 100 leaves the session
\* terminated (GAME_OVER) with the running flag false in the state it
\* produces; a tick that computes a global lag < 100 leaves the status as it
\* was (globalLag is a fraction of half-message units).
C11_CeilingTerminates ==
    [][(Tick /\ ~isSystemRebalancing(nodes)) =>
        IF globalLag'.num >= 100 * 2 * globalLag'.den
        THEN gameStatus' = "GAME_OVER" /\ ~isRunning'
        ELSE gameStatus' = gameStatus]_vars

\* a single topic whose lag was driven to exactly 100 (200 half-units) by
\* the tick that terminated the session
C11_Witness ==
    /\ gameStatus = "GAME_OVER" /\ ~isRunning
    /\ globalLag = [num |-> 200, den |-> 1]
    /\ Cardinality(TopicIdx) = 1
    /\ \E i \in TopicIdx : nodes[i].currentLag = 200

\* ---------------------------------------------------------------------------
\* Global lag: up to MaxMeanTopics topics are created on the first two
\* brokers, then producers, and linked while the session is untouched; rates
\* are lowered, the session is started, the first broker is toggled while it
\* runs, and the game loop runs while every lag is below MaxLag.  Without
\* consumers no node is ever rebalancing.
MeanLayout(type) ==
    /\ type = "TOPIC" => /\ \A i \in 1..Len(nodes) : nodes[i].type = "TOPIC"
                         /\ Len(nodes) < MaxMeanTopics
    /\ type = "PRODUCER" => nodes # <<>>

NextMean ==
    \/ ElectionEffect
    \/ TickRoom /\ LagRoom /\ Tick
    \/ Pristine /\ \E type \in {"TOPIC", "PRODUCER"}, b \in {BROKERS[1], BROKERS[2]} :
          MeanLayout(type) /\ AddNode(type, b)
    \/ Pristine /\ \E s \in NodeIds, t \in NodeIds : HandleCompleteLink(s, t)
    \/ ~isRunning /\ \E id \in NodeIds : UpdateRate(id, 1)
    \/ ~isRunning /\ TogglePause
    \/ isRunning /\ LogRoom /\ ToggleBroker(BROKERS[1])

SpecMean == Init /\ [][NextMean]_vars

\* C12: after a tick that is not skipped, globalLag is the arithmetic mean of
\* lag over exactly the topics that are online after the tick's failover
\* step, and 0 when no topic is online; a tick that leaves every topic
\* offline does not terminate the session.
C12_GlobalLagIsOnlineMean ==
    [][(Tick /\ ~isSystemRebalancing(nodes)) =>
        LET online == {i \in 1..Len(nodes') :
                          nodes'[i].type = "TOPIC" /\ ~nodes'[i].isOffline}
            total == SumOver(online, [i \in online |-> nodes'[i].currentLag])
        IN /\ globalLag'.den > 0
           /\ IF online = {}
              THEN globalLag'.num = 0 /\ gameStatus' = gameStatus
              ELSE globalLag'.num * Cardinality(online) = total * globalLag'.den]_vars

\* two topics with a backlog, one offline and one online, after a tick: the
\* global lag is the online topic's lag, which differs from the offline one's
C12_Witness ==
    /\ isRunning /\ ~isSystemRebalancing(nodes) /\ ~electionDue
    /\ \E i, j \in TopicIdx :
          /\ nodes[i].isOffline /\ ~nodes[j].isOffline
          /\ nodes[i].currentLag > 0
          /\ nodes[j].currentLag > nodes[i].currentLag
          /\ globalLag = [num |-> nodes[j].currentLag, den |-> 1]

\* C17: the session status follows idle <-> running (start/pause),
\* running -> terminated only by a tick whose global lag is >= 100, and
\* terminated -> idle only by retry or reset; once terminated the running
\* flag is false, start/pause is rejected, no tick executes (lags, global
\* lag and the processed counter stay), until retry or reset.
C17_SessionStateMachine ==
    [][/\ gameStatus' \in {"IDLE", "PLAYING", "GAME_OVER"}
       /\ (gameStatus = "IDLE" /\ gameStatus' # "IDLE") =>
              (gameStatus' = "PLAYING" /\ TogglePause)
       /\ (gameStatus = "PLAYING" /\ gameStatus' = "IDLE") =>
              (TogglePause \/ HandleRetry \/ HandleReset)
       /\ (gameStatus = "PLAYING" /\ gameStatus' = "GAME_OVER") =>
              (Tick /\ globalLag'.num >= 100 * 2 * globalLag'.den)
       /\ (gameStatus = "GAME_OVER" /\ gameStatus' # "GAME_OVER") =>
              (gameStatus' = "IDLE" /\ (HandleRetry \/ HandleReset))
       /\ gameStatus' = "GAME_OVER" => ~isRunning'
       /\ (gameStatus = "GAME_OVER" /\ gameStatus' = "GAME_OVER") =>
              /\ globalLag' = globalLag
              /\ totalMessagesProcessed' = totalMessagesProcessed
              /\ Len(nodes') = Len(nodes)
              /\ \A i \in 1..Len(nodes) : nodes'[i].currentLag = nodes[i].currentLag]_vars

\* a session terminated by a tick that overshot the ceiling
C17_Witness ==
    /\ gameStatus = "GAME_OVER" /\ ~isRunning /\ ~electionDue
    /\ globalLag.num > 200 * globalLag.den

\* ---------------------------------------------------------------------------
\* Terminated session: the session of NextSession, and once it has terminated
\* the node commands of the canvas (delete, partition count, replication
\* factor, link) are issued.  The add-node buttons are disabled then.
NextTerminated ==
    \/ ElectionEffect
    \/ Tick
    \/ Pristine /\ \E type \in {"TOPIC", "PRODUCER"} :
          LayoutOrder(type) /\ AddNode(type, BROKERS[1])
    \/ Pristine /\ \E s \in NodeIds, t \in NodeIds : HandleCompleteLink(s, t)
    \/ Pristine /\ \E id \in NodeIds : UpdateRate(id, MaxRate)
    \/ TogglePause
    \/ HandleRetry
    \/ HandleReset
    \/ gameStatus = "GAME_OVER" /\ \E id \in NodeIds : DeleteNode(id)
    \/ gameStatus = "GAME_OVER" /\ \E id \in NodeIds, count \in 1..MaxPartitions :
          UpdatePartitions(id, count)
    \/ gameStatus = "GAME_OVER" /\ \E id \in NodeIds, newRF \in 1..Len(BROKERS) :
          UpdateReplicationFactor(id, newRF)
    \/ gameStatus = "GAME_OVER" /\ \E s \in NodeIds, t \in NodeIds :
          HandleCompleteLink(s, t)

SpecTerminated == Init /\ [][NextTerminated]_vars

\* C18: while the session is terminated, every topology-mutating command
\* other than retry and reset (add node, delete node, add connection, update
\* of partition count or replication factor) is rejected and leaves nodes
\* and connections unchanged.
C18_TerminatedRejectsCommands ==
    [][(gameStatus = "GAME_OVER" /\ ~HandleRetry /\ ~HandleReset) =>
        (nodes' = nodes /\ connections' = connections)]_vars

\* ---------------------------------------------------------------------------
\* Metadata layer: brokers and the primary service are toggled and the mode is
\* switched; topics are added (on the first broker) and re-replicated at any
\* time, producers and consumers are added while the metadata layer is down.
MetadataUnavailable ==
    \/ clusterMode = "ZOOKEEPER" /\ isZookeeperOffline
    \/ clusterMode = "KRAFT" /\ activeControllerId = Null

NextMetadata ==
    \/ ElectionEffect
    \/ LayoutOrder("TOPIC") /\ AddNode("TOPIC", BROKERS[1])
    \/ MetadataUnavailable /\ \E type \in {"PRODUCER", "CONSUMER"} :
          LayoutOrder(type) /\ AddNode(type, BROKERS[1])
    \/ \E id \in NodeIds, newRF \in 1..Len(BROKERS) : UpdateReplicationFactor(id, newRF)
    \/ LogRoom /\ \E id \in BrokerSet : ToggleBroker(id)
    \/ LogRoom /\ ToggleZookeeper
    \/ ToggleClusterMode

SpecMetadata == Init /\ [][NextMetadata]_vars

TopicCount(ns) == Cardinality({i \in 1..Len(ns) : ns[i].type = "TOPIC"})

\* C19: add node(Topic) issued while the active metadata layer is unavailable
\* (ZOOKEEPER mode with the service down, KRAFT mode with no controller) is
\* rejected, so no step taken in such a state adds a topic, and the command
\* leaves everything unchanged; adding a producer or a consumer in such a
\* state is accepted.
C19_TopicRejectedWithoutMetadata ==
    [][MetadataUnavailable =>
        /\ TopicCount(nodes') <= TopicCount(nodes)
        /\ AddNode("TOPIC", BROKERS[1]) => UNCHANGED vars
        /\ (\E type \in {"PRODUCER", "CONSUMER"} : AddNode(type, BROKERS[1])) =>
              /\ Len(nodes') = Len(nodes) + 1
              /\ nodes'[Len(nodes')].type \in {"PRODUCER", "CONSUMER"}]_vars

\* KRAFT mode with every broker down, hence no controller: the board holds a
\* consumer, added in this outage, and no topic
C19_Witness ==
    /\ clusterMode = "KRAFT" /\ ~electionDue /\ activeControllerId = Null
    /\ \A b \in BrokerSet : ~brokerStates[b]
    /\ TopicCount(nodes) = 0
    /\ \E i \in 1..Len(nodes) : nodes[i].type = "CONSUMER"

\* C20: a replication-factor update on a topic issued while the active
\* metadata layer is unavailable leaves the topic's replicationFactor,
\* replicas and activeLeaderId, and every other node, unchanged: no step
\* taken in such a state changes a node.
C20_RfUpdateRejectedWithoutMetadata ==
    [][MetadataUnavailable =>
        /\ Len(nodes') >= Len(nodes)
        /\ \A i \in 1..Len(nodes) : nodes'[i] = nodes[i]]_vars

\* ZOOKEEPER mode with the service down: a topic that was re-replicated to
\* two brokers before the outage keeps its replication factor and replicas
C20_Witness ==
    /\ clusterMode = "ZOOKEEPER" /\ isZookeeperOffline /\ ~electionDue
    /\ \E i \in TopicIdx : /\ nodes[i].replicationFactor = 2
                           /\ Len(nodes[i].replicas) = 2
                           /\ nodes[i].activeLeaderId = nodes[i].replicas[1]

\* ---------------------------------------------------------------------------
\* Links: nodes of every type are added (topics first, then producers, then
\* consumers, all on the first broker), any two ids are linked and nodes are
\* deleted, on a board that is never started.
NextLinks ==
    \/ ElectionEffect
    \/ \E type \in NodeTypes : LayoutOrder(type) /\ AddNode(type, BROKERS[1])
    \/ \E s \in NodeIds, t \in NodeIds : HandleCompleteLink(s, t)
    \/ \E id \in NodeIds : DeleteNode(id)

SpecLinks == Init /\ [][NextLinks]_vars

\* the type of the node with the given id, "none" when there is no such node
TypeOf(ns, id) == IF NodeIndex(ns, id) # 0 THEN ns[NodeIndex(ns, id)].type ELSE "none"

\* source -> target is Producer -> Topic or Topic -> Consumer between two
\* existing distinct nodes
ValidFlow(ns, s, t) ==
    /\ s # t
    /\ \/ TypeOf(ns, s) = "PRODUCER" /\ TypeOf(ns, t) = "TOPIC"
       \/ TypeOf(ns, s) = "TOPIC" /\ TypeOf(ns, t) = "CONSUMER"

\* C21: add connection(source, target) changes the state only when
\* source -> target is Producer -> Topic or Topic -> Consumer between two
\* existing distinct nodes and no connection with the same source and target
\* exists, and then adds that one connection and rebalances; otherwise the
\* whole state is unchanged and no rebalance is triggered: a step that keeps
\* the number of nodes changes connections only in that way, and changes no
\* node when it adds no connection.  Hence in every state every connection is
\* Producer -> Topic or Topic -> Consumer and no pair occurs twice.
C21_OnlyValidLinks ==
    [][/\ \A c \in BagToSet(connections') :
              /\ ValidFlow(nodes', c.sourceId, c.targetId)
              /\ CopiesIn(c, connections') = 1
       /\ (connections' # connections /\ Len(nodes') = Len(nodes)) =>
              \E s \in NodeIds, t \in NodeIds :
                  /\ ValidFlow(nodes, s, t)
                  /\ ~BagIn([sourceId |-> s, targetId |-> t], connections)
                  /\ connections' = connections (+) SetToBag({[sourceId |-> s, targetId |-> t]})
                  /\ nodes' = triggerRebalance(nodes, connections')
       /\ (connections' = connections /\ Len(nodes') = Len(nodes)) => nodes' = nodes]_vars

\* a producer linked into a topic that feeds two consumers: three accepted
\* links, the reverse and same-type pairs having been refused
C21_Witness ==
    /\ BagCardinality(connections) = 3
    /\ \E c \in BagToSet(connections) :
          TypeOf(nodes, c.sourceId) = "PRODUCER" /\ TypeOf(nodes, c.targetId) = "TOPIC"
    /\ \E c, d \in BagToSet(connections) :
          /\ c # d
          /\ TypeOf(nodes, c.sourceId) = "TOPIC" /\ c.sourceId = d.sourceId
          /\ TypeOf(nodes, c.targetId) = "CONSUMER"
          /\ TypeOf(nodes, d.targetId) = "CONSUMER"

\* C22: in every state both endpoints of every connection are ids of
\* existing nodes; delete node(id) removes the node and every connection
\* whose source or target is id, keeps the others, and then rebalances the
\* remaining nodes over the remaining connections.
C22_ReferentialIntegrity ==
    [][/\ \A c \in BagToSet(connections') :
              /\ \E i \in 1..Len(nodes') : nodes'[i].id = c.sourceId
              /\ \E i \in 1..Len(nodes') : nodes'[i].id = c.targetId
       /\ \A id \in NodeIds : DeleteNode(id) =>
              /\ \A i \in 1..Len(nodes') : nodes'[i].id # id
              /\ {nodes'[i].id : i \in 1..Len(nodes')}
                     = {nodes[i].id : i \in 1..Len(nodes)} \ {id}
              /\ \A c \in BagToSet(connections) :
                     CopiesIn(c, connections') =
                         IF c.sourceId = id \/ c.targetId = id THEN 0 ELSE CopiesIn(c, connections)
              /\ BagToSet(connections') \subseteq BagToSet(connections)
              /\ nodes' = triggerRebalance(SelectSeq(nodes, LAMBDA n : n.id # id),
                                            connections')]_vars

\* a topic whose first consumer was deleted: the consumer left, created
\* third, is second in the store and holds the topic's only connection
C22_Witness ==
    /\ Len(nodes) = 2 /\ BagCardinality(connections) = 1
    /\ nodes[1].type = "TOPIC" /\ nodes[2].type = "CONSUMER"
    /\ nodes[2].id > 2
    /\ Connected(connections, nodes[1].id, nodes[2].id)

\* ---------------------------------------------------------------------------
\* Replica sets, checked over the replication scenario (SpecReplication).

\* C23: in every state, every topic's replicas list has length equal to its
\* replicationFactor (a factor of 1..3), its elements are pairwise distinct
\* and all belong to the fixed broker set {101, 102, 103}.
C23_ReplicasMatchFactor ==
    \A i \in TopicIdx :
        /\ nodes[i].replicationFactor \in 1..3
        /\ Len(nodes[i].replicas) = nodes[i].replicationFactor
        /\ \A j, k \in 1..Len(nodes[i].replicas) :
              j # k => nodes[i].replicas[j] # nodes[i].replicas[k]
        /\ \A j \in 1..Len(nodes[i].replicas) : nodes[i].replicas[j] \in {101, 102, 103}

\* a topic created on broker 103, re-replicated to three brokers and then
\* back to two: factor 2, two distinct replicas, the leader first
C23_Witness ==
    \E i \in TopicIdx :
        /\ nodes[i].replicationFactor = 2
        /\ Len(nodes[i].replicas) = 2
        /\ nodes[i].replicas[1] = 103
        /\ nodes[i].replicas[2] # 103
        /\ nodes[i].activeLeaderId = 103

\* ---------------------------------------------------------------------------
\* Stop-the-world rebalance, checked over the message-flow scenario (SpecFlow).

\* C24: a tick that fires while any node has its rebalancing flag set leaves
\* the entire state unchanged; so no step taken in such a state changes a
\* topic's leader, offline flag or lag, globalLag or the processed counter,
\* and the status changes only by start/pause.
C24_RebalancingTickIsNoOp ==
    [][(\E i \in 1..Len(nodes) : nodes[i].isRebalancing) =>
        /\ Tick => UNCHANGED vars
        /\ Len(nodes') >= Len(nodes)
        /\ \A i \in 1..Len(nodes) :
              /\ nodes'[i].activeLeaderId = nodes[i].activeLeaderId
              /\ nodes'[i].isOffline = nodes[i].isOffline
              /\ nodes'[i].currentLag = nodes[i].currentLag
        /\ globalLag' = globalLag
        /\ totalMessagesProcessed' = totalMessagesProcessed
        /\ gameStatus' # gameStatus => TogglePause]_vars

\* a running session in the settle window of a rebalance: the leader's broker
\* is down and a producer feeds the topic, yet the topic is still online on
\* its dead leader with lag 0 and nothing was processed
C24_Witness ==
    /\ isRunning /\ ~electionDue
    /\ \E i \in 1..Len(nodes) : nodes[i].isRebalancing
    /\ totalMessagesProcessed = 0
    /\ \E i \in TopicIdx :
          /\ ~brokerStates[nodes[i].activeLeaderId]
          /\ ~nodes[i].isOffline
          /\ nodes[i].currentLag = 0
          /\ InflowOf(i) > 0

\* ---------------------------------------------------------------------------
\* Recovery: the mode is chosen on the empty board, a board is laid out and
\* linked while the session is untouched, the session is started, the first
\* broker is toggled while it runs, the game loop runs while every lag is
\* below MaxLag, and retry and reset are issued at any time.
NextRecovery ==
    \/ ElectionEffect
    \/ TickRoom /\ LagRoom /\ Tick
    \/ SettleTimer
    \/ Pristine /\ nodes = <<>> /\ ToggleClusterMode
    \/ Pristine /\ \E type \in NodeTypes : LayoutOrder(type) /\ AddNode(type, BROKERS[1])
    \/ Pristine /\ \E s \in NodeIds, t \in NodeIds : HandleCompleteLink(s, t)
    \/ ~isRunning /\ TogglePause
    \/ isRunning /\ LogRoom /\ ToggleBroker(BROKERS[1])
    \/ HandleRetry
    \/ HandleReset

SpecRecovery == Init /\ [][NextRecovery]_vars

\* C25: retry preserves topology (the same nodes with the same ids, rates,
\* partition counts, replicas, leaders and assignments, and the same
\* connections) while setting every node's lag to 0, offline flag to false
\* and rebalancing flag to false, globalLag and totalMessagesProcessed to 0,
\* and status to idle with running false.
C25_RetryPreservesTopology ==
    [][HandleRetry =>
        /\ Len(nodes') = Len(nodes)
        /\ \A i \in 1..Len(nodes) :
              /\ nodes'[i] = [nodes[i] EXCEPT !.currentLag = 0,
                                              !.isOffline = FALSE,
                                              !.isRebalancing = FALSE]
              /\ nodes'[i].currentLag = 0
              /\ ~nodes'[i].isOffline
              /\ ~nodes'[i].isRebalancing
        /\ connections' = connections
        /\ globalLag'.num = 0
        /\ totalMessagesProcessed' = 0
        /\ gameStatus' = "IDLE"
        /\ ~isRunning']_vars

\* a board stopped by retry after broker 101 had gone down while it ran: the
\* brokers are live again, the controller elected meanwhile (102) is kept,
\* and the topic, its linked producer and its consumer holding partition 0
\* are there with lag 0
C25_Witness ==
    /\ ~isRunning /\ gameStatus = "IDLE" /\ ~electionDue
    /\ \A b \in BrokerSet : brokerStates[b]
    /\ activeControllerId = 102
    /\ totalMessagesProcessed = 0
    /\ \E i \in TopicIdx :
          /\ nodes[i].currentLag = 0 /\ ~nodes[i].isOffline
          /\ InflowOf(i) > 0
          /\ \E j \in ConsumersOf(i) : nodes[j].assignedPartitions = <<0>>

\* the state reset produces
ResetState ==
    /\ nodes = <<>>
    /\ connections = EmptyBag
    /\ globalLag.num = 0
    /\ totalMessagesProcessed = 0
    /\ gameStatus = "IDLE"
    /\ ~isRunning
    /\ zkLogs = <<>>
    /\ raftLogs = <<>>
    /\ ~isZookeeperOffline
    /\ activeControllerId = Null
    /\ \A b \in BrokerSet : brokerStates[b]

\* C26: reset, from any state, yields no nodes, no connections, lag and
\* counters 0, status idle, running false, empty logs, the primary service
\* available and all brokers live, with the mode unchanged; when the election
\* then re-runs the controller becomes broker 101.
C26_ResetClearsEverything ==
    [][/\ HandleReset => (ResetState' /\ clusterMode' = clusterMode /\ electionDue')
       /\ (ElectionEffect /\ ResetState) => activeControllerId' = 101]_vars

\* SELF-MANAGED mode, the empty board as reset leaves it, after the election
\* has re-run: controller 101 and its one election record
C26_Witness ==
    /\ clusterMode = "KRAFT" /\ ~electionDue
    /\ nodes = <<>> /\ connections = EmptyBag
    /\ \A b \in BrokerSet : brokerStates[b]
    /\ activeControllerId = 101
    /\ raftLogs = <<"BROKER_CHANGE">>

\* ---------------------------------------------------------------------------
\* Round-robin assignment, checked over the topology scenario (SpecTopology).

\* position (from 0) of the consumer at c in the list of the consumers
\* connected to the topic at t, taken in node-store order
PositionOf(t, c) == Cardinality({d \in ConsumersOf(t) : d < c})

\* the partition indices of the topic at t that fall to the consumer at c,
\* in increasing order
ShareOf(t, c) ==
    SelectSeq([i \in 1..nodes[t].partitions |-> i - 1],
              LAMBDA x : x % Cardinality(ConsumersOf(t)) = PositionOf(t, c))

\* the shares of the consumer at c in the topics from store position k on
RECURSIVE SharesFrom(_, _)
SharesFrom(c, k) ==
    IF k > Len(nodes) THEN <<>>
    ELSE (IF k \in TopicsOf(c) THEN ShareOf(k, c) ELSE <<>>) \o SharesFrom(c, k + 1)

\* C27: triggerRebalance assigns, for each topic, partition index i
\* (0 <= i < partitions) to the consumer at position i mod c in the list of
\* that topic's connected consumers taken in node-store order (topics taken
\* in store order), so that a consumer connected to a single topic holds
\* exactly {i : i mod c = position}; every state carries this assignment.
C27_RoundRobinAssignment ==
    LET rebalanced == triggerRebalance(nodes, connections)
    IN \A c \in ConsumerIdx :
          /\ rebalanced[c].assignedPartitions = SharesFrom(c, 1)
          /\ nodes[c].assignedPartitions = SharesFrom(c, 1)
          /\ \A t \in TopicIdx : TopicsOf(c) = {t} =>
                /\ Range(nodes[c].assignedPartitions) =
                      {i \in 0..(nodes[t].partitions - 1) :
                          i % Cardinality(ConsumersOf(t)) = PositionOf(t, c)}
                /\ Len(nodes[c].assignedPartitions) =
                      Cardinality(Range(nodes[c].assignedPartitions))

\* a topic with two partitions and three connected consumers: in store
\* order they hold [0], [1] and nothing
C27_Witness ==
    \E t \in TopicIdx : \E a, b, c \in ConsumersOf(t) :
        /\ a < b /\ b < c
        /\ nodes[t].partitions = 2
        /\ nodes[a].assignedPartitions = <<0>>
        /\ nodes[b].assignedPartitions = <<1>>
        /\ nodes[c].assignedPartitions = <<>>
        /\ nodes[c].isIdle

\* ---------------------------------------------------------------------------
\* Leaders and replica lists, checked over the replication scenario
\* (SpecReplication).

\* C28: in a tick that is not skipped, a topic whose current leader is live
\* is online after the tick and keeps the same activeLeaderId, whatever the
\* controller is (even null) and even if an earlier replica of the list has
\* come back to life: there is no fail-back.
C28_LiveLeaderKept ==
    [][(Tick /\ ~\E i \in 1..Len(nodes) : nodes[i].isRebalancing) =>
        \A i \in 1..Len(nodes) :
            (/\ nodes[i].type = "TOPIC"
             /\ nodes[i].activeLeaderId # Null
             /\ brokerStates[nodes[i].activeLeaderId]) =>
                /\ ~nodes'[i].isOffline
                /\ nodes'[i].activeLeaderId = nodes[i].activeLeaderId]_vars

\* a running session with a controller: the topic's leader is its second
\* replica, taken at a failover, and the first replica is live again
C28_Witness ==
    /\ isRunning /\ ~electionDue /\ activeControllerId # Null
    /\ \E i \in TopicIdx :
          /\ Len(nodes[i].replicas) >= 2
          /\ nodes[i].activeLeaderId = nodes[i].replicas[2]
          /\ brokerStates[nodes[i].replicas[1]]
          /\ brokerStates[nodes[i].replicas[2]]
          /\ ~nodes[i].isOffline

\* C29: an accepted replication-factor change to r (1..3) on a topic
\* produces a replicas list whose first element is the topic's current
\* activeLeaderId, followed by r - 1 distinct other brokers of the pool;
\* activeLeaderId itself is not changed by the command, even if that leader
\* is currently dead.  (Every step that changes a topic's replicas or
\* replicationFactor is such a change.)
C29_LeaderFirstInNewReplicas ==
    [][\A i \in 1..Len(nodes) :
          (\/ nodes'[i].replicas # nodes[i].replicas
           \/ nodes'[i].replicationFactor # nodes[i].replicationFactor) =>
              LET r == nodes'[i].replicationFactor
              IN /\ UpdateReplicationFactor(nodes[i].id, r)
                 /\ ~MetadataUnavailable
                 /\ r \in 1..3
                 /\ Len(nodes'[i].replicas) = r
                 /\ nodes'[i].replicas[1] = nodes[i].activeLeaderId
                 /\ \A k \in 2..r :
                       /\ nodes'[i].replicas[k] \in BrokerSet \ {nodes[i].activeLeaderId}
                       /\ \A j \in 2..r : j # k => nodes'[i].replicas[j] # nodes'[i].replicas[k]
                 /\ nodes'[i].activeLeaderId = nodes[i].activeLeaderId]_vars

\* broker 101, the topic's leader, is down and a controller is elected: the
\* topic has been re-replicated to three brokers and its list starts with
\* the dead leader, which is still its leader
C29_Witness ==
    /\ ~electionDue /\ activeControllerId # Null /\ ~isZookeeperOffline
    /\ ~brokerStates[101]
    /\ \E i \in TopicIdx :
          /\ nodes[i].activeLeaderId = 101
          /\ nodes[i].replicationFactor = 3
          /\ Len(nodes[i].replicas) = 3
          /\ nodes[i].replicas[1] = 101
          /\ ~nodes[i].isOffline

\* ---------------------------------------------------------------------------
\* Failover: one topic is created on the first broker and re-replicated
\* before the session is started; while it runs, brokers and the primary
\* service are toggled and the game loop runs, its interval timer firing for
\* as long as the session runs.
NextFailover ==
    \/ ElectionEffect
    \/ TickRoom /\ Tick
    \/ nodes = <<>> /\ AddNode("TOPIC", BROKERS[1])
    \/ ~isRunning /\ \E id \in NodeIds, newRF \in 1..Len(BROKERS) :
          UpdateReplicationFactor(id, newRF)
    \/ ~isRunning /\ TogglePause
    \/ isRunning /\ LogRoom /\ \E id \in BrokerSet : ToggleBroker(id)
    \/ isRunning /\ LogRoom /\ ToggleZookeeper

SpecFailover == Init /\ [][NextFailover]_vars /\ WF_vars(TickRoom /\ Tick)

\* a running session with an elected controller whose topic at position i is
\* offline although one of its replicas is live
FailoverDue(i) ==
    /\ i <= Len(nodes)
    /\ nodes[i].type = "TOPIC"
    /\ nodes[i].isOffline
    /\ isRunning /\ ~electionDue
    /\ activeControllerId # Null
    /\ \E k \in 1..Len(nodes[i].replicas) : brokerStates[nodes[i].replicas[k]]

\* C30: failover is retried every tick: an executed tick of a running
\* session that finds an offline topic, a controller elected and a live
\* broker among the topic's replicas leaves the topic online with a live
\* leader; and with the ticks weakly fair, no topic stays offline forever in
\* a running session whose controller stays elected and which keeps a live
\* replica of the topic.
C30_FailoverRetried ==
    /\ [][(Tick /\ ~\E i \in 1..Len(nodes) : nodes[i].isRebalancing) =>
            \A i \in 1..Len(nodes) :
                FailoverDue(i) =>
                    /\ ~nodes'[i].isOffline
                    /\ nodes'[i].activeLeaderId \in Range(nodes[i].replicas)
                    /\ brokerStates[nodes'[i].activeLeaderId]]_vars
    /\ ~<>[](\E i \in NodeIds : FailoverDue(i))

\* a topic that went offline while no controller was elected (primary
\* service down, leader 101 down) and came back on its second replica once
\* the service, and with it a controller, had returned
C30_Witness ==
    /\ isRunning /\ ~electionDue /\ activeControllerId # Null
    /\ ~brokerStates[101]
    /\ zkLogs = <<"ELECT", "ELECT">>
    /\ \E i \in TopicIdx :
          /\ nodes[i].replicas[1] = 101
          /\ Len(nodes[i].replicas) = 2
          /\ nodes[i].activeLeaderId = nodes[i].replicas[2]
          /\ ~nodes[i].isOffline

\* ---------------------------------------------------------------------------
\* Settle window: a board is laid out and linked while the session is
\* untouched, partition counts are changed at any time, the session is
\* started and paused, the game loop runs while every lag is below MaxLag,
\* and the settle timer, once armed, fires unless the nodes change first.
NextSettle ==
    \/ ElectionEffect
    \/ TickRoom /\ LagRoom /\ Tick
    \/ SettleTimer
    \/ Pristine /\ \E type \in NodeTypes : LayoutOrder(type) /\ AddNode(type, BROKERS[1])
    \/ Pristine /\ \E s \in NodeIds, t \in NodeIds : HandleCompleteLink(s, t)
    \/ \E id \in NodeIds, count \in 1..MaxPartitions : UpdatePartitions(id, count)
    \/ TogglePause

SpecSettle == Init /\ [][NextSettle]_vars /\ WF_vars(SettleTimer)

\* a step of a command that ends in triggerRebalance
RebalancingCommand ==
    \/ \E type \in NodeTypes : AddNode(type, BROKERS[1])
    \/ \E s \in NodeIds, t \in NodeIds : HandleCompleteLink(s, t)
    \/ \E id \in NodeIds, count \in 1..MaxPartitions : UpdatePartitions(id, count)

\* C31: every rebalance sets the rebalancing flag on the rebalanced
\* consumers, and the settle timer, which runs whether or not the session is
\* running and whether or not ticks fire, clears the flag on all nodes; if
\* from some point on no command changes the nodes, the flags are eventually
\* all false for good, so ticks stop being skipped.
C31_SettleTimerClearsFlags ==
    /\ [][/\ (nodes' # nodes /\ RebalancingCommand) =>
               (\A i \in 1..Len(nodes') :
                   (nodes'[i].type = "CONSUMER") => nodes'[i].isRebalancing)
          /\ SettleTimer => (\A i \in 1..Len(nodes') : ~nodes'[i].isRebalancing)
          /\ (\E i \in 1..Len(nodes) : nodes[i].isRebalancing) =>
               (\/ \A i \in 1..Len(nodes') : ~nodes'[i].isRebalancing
                \/ nodes' = nodes
                \/ RebalancingCommand)]_vars
    /\ <>[][~RebalancingCommand]_vars =>
           <>[](\A i \in 1..Len(nodes) : ~nodes[i].isRebalancing)

\* an idle session, never started, whose consumer was linked to a topic and
\* holds its partition with the flag cleared by the timer
C31_Witness ==
    /\ ~isRunning /\ gameStatus = "IDLE" /\ totalMessagesProcessed = 0
    /\ \A i \in 1..Len(nodes) : ~nodes[i].isRebalancing
    /\ \E t \in TopicIdx : \E c \in ConsumersOf(t) :
          /\ nodes[c].assignedPartitions = <<0>>
          /\ ~nodes[c].isIdle

\* ---------------------------------------------------------------------------
\* Broker liveness: the recovery scenario, with every broker toggled while
\* the session runs.
NextBrokers ==
    \/ NextRecovery
    \/ isRunning /\ LogRoom /\ \E id \in BrokerSet \ {BROKERS[1]} : ToggleBroker(id)

SpecBrokers == Init /\ [][NextBrokers]_vars

\* C32: a broker's liveness flag changes only through an explicit
\* toggle-broker command for that broker: ticks, elections, rebalances, node
\* and connection commands, mode changes, start/pause, retry and reset leave
\* the broker-liveness map unchanged.
C32_OnlyToggleChangesLiveness ==
    [][\A b \in BrokerSet :
          brokerStates'[b] # brokerStates[b] => ToggleBroker(b)]_vars

\* C32 as amended: a broker's liveness flag changes only through a
\* toggle-broker command for that broker, which changes no other broker's
\* flag, or through retry or reset, which set every broker live; every other
\* step leaves the broker-liveness map unchanged.
C32_ToggleRetryResetChangeLiveness ==
    [][/\ \A b \in BrokerSet :
             brokerStates'[b] # brokerStates[b] =>
                 \/ /\ ToggleBroker(b)
                    /\ \A o \in BrokerSet \ {b} : brokerStates'[o] = brokerStates[o]
                 \/ HandleRetry \/ HandleReset
       /\ (HandleRetry \/ HandleReset) => \A b \in BrokerSet : brokerStates'[b]
       /\ (Tick \/ ElectionEffect \/ SettleTimer \/ TogglePause \/ ToggleClusterMode) =>
             brokerStates' = brokerStates]_vars

\* a session that ran while brokers 102 and 103 were down and 101 was not
\* (two toggles, each of one broker), with a topic still online on 101
C32_Witness ==
    /\ isRunning /\ ~electionDue
    /\ brokerStates[101] /\ ~brokerStates[102] /\ ~brokerStates[103]
    /\ activeControllerId = 101
    /\ \E i \in TopicIdx : ~nodes[i].isOffline /\ nodes[i].activeLeaderId = 101

\* ---------------------------------------------------------------------------
\* Running flag and status, checked over the session scenario (SpecSession).

\* C33: the running flag and the status agree in every state: isRunning is
\* true if and only if gameStatus is PLAYING (so it is false in both idle and
\* terminated), across toggle pause, ticks, retry and reset.
C33_RunningIffPlaying ==
    isRunning <=> (gameStatus = "PLAYING")

\* a session that was started and has ticked: it is running, its status is
\* PLAYING and a backlog below the ceiling has built up
C33_Witness ==
    /\ isRunning /\ gameStatus = "PLAYING"
    /\ globalLag.num > 0
    /\ globalLag.num < 100 * 2 * globalLag.den

\* ---------------------------------------------------------------------------
\* Stickiness of the controller: brokers, the service and the mode are
\* toggled, with no retry or reset, so a broker comes back to life only by a
\* toggle.
NextSticky ==
    \/ ElectionEffect
    \/ Len(zkLogs) <= MaxLog /\ Len(raftLogs) <= MaxLog /\ \E id \in BrokerSet : ToggleBroker(id)
    \/ LogRoom /\ ToggleZookeeper
    \/ LogRoom /\ ToggleClusterMode

SpecSticky == Init /\ [][NextSticky]_vars

\* C34: the controller is sticky: while the current controller's broker is
\* live (and, in ZOOKEEPER mode, the service is available), neither a toggle
\* of another broker - a lower-id broker coming back to life included - nor
\* the election that follows it changes the controller; and any step that
\* keeps the controller's broker live, the mode and the service keeps the
\* controller.
C34_ControllerSticky ==
    [][(/\ activeControllerId # Null
        /\ brokerStates[activeControllerId]
        /\ ~(clusterMode = "ZOOKEEPER" /\ isZookeeperOffline)) =>
        /\ ((\E b \in BrokerSet \ {activeControllerId} : ToggleBroker(b)) \/ ElectionEffect)
              => activeControllerId' = activeControllerId
        /\ (/\ brokerStates'[activeControllerId]
            /\ clusterMode' = clusterMode
            /\ isZookeeperOffline' = isZookeeperOffline)
              => activeControllerId' = activeControllerId]_vars

\* broker 101 went down, 102 was elected, 101 came back to life by a toggle
\* and the election has re-run: 102 is still the controller although 101 is
\* the lowest-id live broker
C34_Witness ==
    /\ ~electionDue
    /\ activeControllerId = 102
    /\ brokerStates[101] /\ brokerStates[102] /\ ~brokerStates[103]
    /\ availableBrokers(brokerStates)[1] = 101

\* ---------------------------------------------------------------------------
\* Online flag and leader liveness, checked over the replication scenario
\* (SpecReplication).

\* C35: immediately after every tick that is not skipped, a topic is online
\* if and only if its activeLeaderId is a broker that is live at that tick:
\* no topic is left online with a dead leader, and no topic with a live
\* leader is left offline.
C35_OnlineIffLeaderLive ==
    [][(Tick /\ ~isSystemRebalancing(nodes)) =>
        \A i \in 1..Len(nodes) :
            nodes[i].type = "TOPIC" =>
                (~nodes'[i].isOffline <=>
                    (/\ nodes'[i].activeLeaderId # Null
                     /\ brokerStates[nodes'[i].activeLeaderId]))]_vars

\* a running session with a controller elected (103) whose topic, replicated
\* to 101 and 102, was marked offline by a tick with both replicas down
C35_Witness ==
    /\ isRunning /\ ~electionDue
    /\ activeControllerId = 103
    /\ ~brokerStates[101] /\ ~brokerStates[102]
    /\ \E i \in TopicIdx :
          /\ nodes[i].replicas = <<101, 102>>
          /\ nodes[i].activeLeaderId \in {101, 102}
          /\ nodes[i].isOffline

\* ---------------------------------------------------------------------------
\* Assignments of unconnected consumers: nodes are added and deleted, links
\* drawn, partition counts changed and the session retried.
NextAssignments ==
    \/ NextLinks
    \/ \E id \in NodeIds, count \in 1..MaxPartitions : UpdatePartitions(id, count)
    \/ HandleRetry

SpecAssignments == Init /\ [][NextAssignments]_vars

\* the consumer at position i has no connection from any topic
Unconnected(i) ==
    \A t \in TopicIdx : ~Connected(connections, nodes[t].id, nodes[i].id)

C37_NoServiceFlagInKraft ==
    /\ [](clusterMode = "KRAFT" => ~isZookeeperOffline)
    /\ [][/\ clusterMode = "KRAFT" =>
               /\ isZookeeperOffline' = isZookeeperOffline
               /\ ToggleZookeeper => UNCHANGED vars
          /\ (ToggleClusterMode \/ HandleRetry \/ HandleReset) => ~isZookeeperOffline']_vars

\* KRAFT mode entered with broker 101 down: the flag is false and the
\* election has installed 102 and written its one record
C37_Witness ==
    /\ clusterMode = "KRAFT"
    /\ ~isZookeeperOffline
    /\ ~electionDue
    /\ ~brokerStates[101]
    /\ activeControllerId = 102
    /\ raftLogs = <<"BROKER_CHANGE">>

\* ---------------------------------------------------------------------------
\* Mode switches: the metadata scenario with the session started and paused.
NextMode ==
    \/ NextMetadata
    \/ TogglePause

SpecMode == Init /\ [][NextMode]_vars

\* C38: set mode (toggle between ZOOKEEPER and KRAFT), from any state, sets
\* the controller to null and empties both metadata logs while leaving nodes,
\* connections, broker liveness and session status unchanged; the election
\* that follows (it finds no controller and the service available) installs
\* the lowest-id live broker, or null if none is live, whatever the previous
\* controller was.
C38_ModeSwitchResetsMetadata ==
    [][/\ ToggleClusterMode =>
            /\ clusterMode' # clusterMode
            /\ activeControllerId' = Null
            /\ zkLogs' = <<>> /\ raftLogs' = <<>>
            /\ UNCHANGED <<nodes, connections, brokerStates, gameStatus, isRunning>>
            /\ electionDue' /\ ~isZookeeperOffline'
       /\ (/\ ElectionEffect
           /\ activeControllerId = Null
           /\ ~(clusterMode = "ZOOKEEPER" /\ isZookeeperOffline)) =>
              IF \E b \in BrokerSet : brokerStates[b]
              THEN /\ brokerStates[activeControllerId']
                   /\ \A b \in BrokerSet : brokerStates[b] => activeControllerId' <= b
              ELSE activeControllerId' = Null]_vars

\* a running session in KRAFT mode with a topic on the board, 101 down and
\* 102 and 103 live, just after the mode switch: no controller, both logs
\* empty, the election pending
C38_Witness ==
    /\ clusterMode = "KRAFT"
    /\ electionDue
    /\ activeControllerId = Null
    /\ zkLogs = <<>> /\ raftLogs = <<>>
    /\ ~brokerStates[101] /\ brokerStates[102] /\ brokerStates[103]
    /\ isRunning
    /\ TopicIdx # {}

\* ---------------------------------------------------------------------------
\* Bounds on the lag step, checked over the flow scenario (SpecFlow); lag,
\* k*inflow and k*capacity are counted in half-message units.

\* C39: in a tick that is not skipped, for an online topic whose inflow does
\* not exceed its available capacity the lag does not increase, and for an
\* online topic with zero capacity the lag grows by exactly k*inflow
\* (k = 0.5); the amount drained in a tick (lag + k*inflow - lag') is never
\* negative and never exceeds k*capacity nor the lag available after inflow.
C39_LagStepBounds ==
    [][(Tick /\ ~isSystemRebalancing(nodes)) =>
        \A i \in 1..Len(nodes) :
            (nodes[i].type = "TOPIC" /\ ~nodes'[i].isOffline) =>
                LET flowIn == InflowOf(i)
                    cap == CapacityOf(i)
                    drained == nodes[i].currentLag + flowIn - nodes'[i].currentLag
                IN /\ flowIn <= cap => nodes'[i].currentLag <= nodes[i].currentLag
                   /\ cap = 0 => nodes'[i].currentLag = nodes[i].currentLag + flowIn
                   /\ drained >= 0
                   /\ drained <= cap
                   /\ drained <= nodes[i].currentLag + flowIn]_vars

\* a running topic fed by a producer of rate 1, with no consumer holding a
\* partition: two ticks have raised its lag by 0.5 each, nothing was processed
C39_Witness ==
    /\ isRunning /\ totalMessagesProcessed = 0
    /\ \E i \in TopicIdx :
          /\ ~nodes[i].isOffline
          /\ CapacityOf(i) = 0
          /\ InflowOf(i) = 1
          /\ nodes[i].currentLag = 2

\* ---------------------------------------------------------------------------
\* Reaching the ceiling: a small board with one topic is built and one rate raised before
\* the session starts, then the session is started and the game loop and the
\* settle timer run, both weakly fair.

\* the topic at position i is online and takes in more than its consumers
\* can drain
Overloaded(i) == ~nodes[i].isOffline /\ InflowOf(i) > CapacityOf(i)

\* the processed counter is capped, except where the ceiling ends the session
CeilingRoom ==
    \/ totalMessagesProcessed < MaxProcessed
    \/ \E i \in TopicIdx : Overloaded(i)

NextCeiling ==
    \/ ElectionEffect
    \/ CeilingRoom /\ Tick
    \/ SettleTimer
    \/ Pristine /\ Len(nodes) < MaxCeilingNodes /\ \E type \in NodeTypes :
          /\ LayoutOrder(type) /\ (type = "TOPIC" => nodes = <<>>)
          /\ AddNode(type, BROKERS[1])
    \/ Pristine /\ \E s \in NodeIds, t \in NodeIds : HandleCompleteLink(s, t)
    \/ Pristine /\ \E id \in NodeIds : UpdateRate(id, MaxRate)
    \/ ~isRunning /\ TogglePause

SpecCeiling ==
    Init /\ [][NextCeiling]_vars /\ WF_vars(CeilingRoom /\ Tick) /\ WF_vars(SettleTimer)

\* C40: a session containing a single topic that stays online with its inflow
\* strictly above its available capacity, and that from some point on is
\* never idle again (it runs, with no further command), eventually becomes
\* terminated under weak fairness of the ticks and of the settle timer;
\* conversely a tick in which every topic left online has inflow <= capacity
\* and lag < 100 (200 half-message units) does not terminate the session.
C40_CeilingLiveness ==
    /\ <>[](/\ gameStatus # "IDLE"
            /\ Cardinality(TopicIdx) = 1
            /\ \A i \in TopicIdx : Overloaded(i))
          => <>(gameStatus = "GAME_OVER")
    /\ [][(/\ Tick
           /\ \A i \in TopicIdx :
                  ~nodes'[i].isOffline =>
                      /\ InflowOf(i) <= CapacityOf(i)
                      /\ nodes[i].currentLag < LagCeiling * LagScale)
              => gameStatus' # "GAME_OVER"]_vars

\* the session was terminated by the tick that took the lag of its one
\* topic, fed at rate 8 and drained at rate 5, from 99 to 100.5
C40_Witness ==
    /\ gameStatus = "GAME_OVER" /\ ~isRunning
    /\ \E i \in TopicIdx :
          /\ TopicIdx = {i}
          /\ InflowOf(i) = DefaultProductionRate
          /\ CapacityOf(i) = DefaultProcessingRate
          /\ nodes[i].currentLag = 201

====
